---------------------------- MODULE Spec2Model ----------------------------
(***************************************************************************)
(* A model of hsdwm (src/wm.c): the client registry, the focus state, the  *)
(* dock/strut accounting, the two tilers and the X event handlers.         *)
(*                                                                         *)
(* Ten specifications are defined:                                         *)
(*   Spec       the window manager: startup scan, then one action per X    *)
(*              event handler (a handler runs to completion before the     *)
(*              next event is read, so every state with phase = "loop" is  *)
(*              a state in which run_loop is about to call XNextEvent).    *)
(*              All handlers and all inputs, in every session of at most   *)
(*              MaxEvents events;                                          *)
(*   SpecPlain  sessions of any length with normal windows only: map,      *)
(*              destroy, pointer focus, mode toggle, directional swap      *)
(*              (probe remembers the state a swap key was pressed in);     *)
(*   SpecTile   tile_workspace as a function of the screen, the reserved   *)
(*              margins, the layout and the number of clients;             *)
(*   SpecRound  swap_clients, switch_workspace and focus_client_proper     *)
(*              applied and applied again, and unmanage, after a session   *)
(*              of map events, with the X server's stacking and borders    *)
(*              (probe holds the operation and what it started with);      *)
(*   SpecKeys   sessions of any length of normal windows and docks with    *)
(*              the workspace keys and the Alt-Tab keys;                   *)
(*   SpecFiles  sessions of any length of map, destroy and workspace keys  *)
(*              with the content of ~/.wm/occupied.workspace in probe;     *)
(*   SpecDock   a dock with any strut and a normal window, mapped in       *)
(*              either order, and the mode toggle;                         *)
(*   SpecStart  main() from XSelectInput on the root window, with or       *)
(*              without another window manager, and X errors (probe holds  *)
(*              what is written to stderr);                                *)
(*   SpecMove   sessions of any length of normal windows with pointer      *)
(*              focus, the mode toggle and the workspace keys;             *)
(*   SpecConfigure  ConfigureRequest for a dock and a normal window,       *)
(*              managed or not, with the geometry the X server holds for   *)
(*              each window in probe.                                      *)
(*                                                                         *)
(* Unsigned 32-bit values are represented by the integer with the same     *)
(* bits (u >= 2^31 as u - 2^32); ULess is the unsigned comparison.         *)
(***************************************************************************)
EXTENDS Integers, Sequences, FiniteSets, TLC

(***************************************************************************)
(* Compile-time configuration and constants of wm.c                        *)
(***************************************************************************)
BORDER_PX_UNFOCUSED == 12
MIN_WIN_W == 32
MIN_WIN_H == 24
MAX_WORKSPACES == 9
gap_outer == 24
gap_inner == 8
DEFAULT_MASTER_FACTOR == 60
DEFAULT_TAG_MODE == 0

MODE_FLOATING == 0
MODE_TILING == 1
LAYOUT_MASTER == 0
LAYOUT_DWINDLE == 1

NULL == 0

(***************************************************************************)
(* Machine integers.  int and unsigned int are 32 bits wide; the strut     *)
(* cardinals are 32-bit property items held in unsigned long fields.  An   *)
(* unsigned value is represented by the int with the same 32 bits: u below *)
(* 2^31 by u itself, u from 2^31 up by u - 2^32, which is negative.  The   *)
(* casts intu and unsignedi then keep the representation, and what     *)
(* distinguishes the two types is the comparison: < on int is <, < on      *)
(* unsigned is ULess.                                                      *)
(***************************************************************************)
\* a < b for unsigned a, b
ULess(a, b) == IF (a >= 0) = (b >= 0) THEN a < b ELSE a >= 0

Rect(x, y, w, h) == [x |-> x, y |-> y, w |-> w, h |-> h]

(***************************************************************************)
(* clamp_size: the two lower clamps, then the two upper clamps, on         *)
(* unsigned values.  unsigned(sw * 0.95) equals floor(sw * 95 / 100) for *)
(* every screen dimension of the model.                                    *)
(***************************************************************************)
ClampLowW(w) == IF ULess(w, MIN_WIN_W) THEN MIN_WIN_W ELSE w

ClampLowH(h) == IF ULess(h, MIN_WIN_H) THEN MIN_WIN_H ELSE h

ClampW(w, sw) ==
    LET maxw == (sw * 95) \div 100
        w1 == ClampLowW(w)
    IN  IF ULess(maxw, w1) THEN maxw ELSE w1

ClampH(h, sh) ==
    LET maxh == (sh * 95) \div 100
        h1 == ClampLowH(h)
    IN  IF ULess(maxh, h1) THEN maxh ELSE h1

\* c->x = x; c->y = y; c->w = unsignedw; c->h = unsignedh; clamp_size(&c->w, &c->h)
Placed(x, y, w, h, sw, sh) ==
    Rect(x, y, ClampW(w, sw), ClampH(h, sh))

(***************************************************************************)
(* tile_workspace: the framing shared by both layouts                      *)
(***************************************************************************)
BorderB == BORDER_PX_UNFOCUSED

EffectiveOuter == gap_outer + BorderB

AvailW(sw, rl, rr) ==
    LET a == sw - 2 * EffectiveOuter - rl - rr
    IN  IF a < MIN_WIN_W THEN MIN_WIN_W ELSE a

AvailH(sh, rt, rb) ==
    LET a == sh - 2 * EffectiveOuter - rt - rb
    IN  IF a < MIN_WIN_H THEN MIN_WIN_H ELSE a

OriginX(rl) == EffectiveOuter + rl

OriginY(rt) == EffectiveOuter + rt

\* the count == 1 branch
TileSingle(ox, oy, aw, ah, sw, sh) ==
    << Placed(ox, oy, aw - 2 * BorderB, ah - 2 * BorderB, sw, sh) >>

(***************************************************************************)
(* LAYOUT_MASTER branch of tile_workspace, for count >= 2                  *)
(***************************************************************************)
\* a faulty master width, rounded up instead of down
MasterWRoundedUp(aw) ==
    LET m == (aw * DEFAULT_MASTER_FACTOR + 99) \div 100
    IN  IF m < MIN_WIN_W THEN MIN_WIN_W ELSE m

MasterW(aw) ==
    LET m == (aw * DEFAULT_MASTER_FACTOR) \div 100
    IN  IF m < MIN_WIN_W THEN MIN_WIN_W ELSE m

StackW(aw) ==
    LET s == aw - MasterW(aw) - gap_inner
    IN  IF s < MIN_WIN_W THEN MIN_WIN_W ELSE s

StackEachH(ah, stack_count) ==
    IF stack_count > 0
    THEN (ah - (stack_count - 1) * gap_inner) \div stack_count
    ELSE ah

\* the cell of the stack client with index stack_idx (0-based)
StackCell(stack_idx, stack_count, ox, oy, aw, ah, sw, sh) ==
    LET each == StackEachH(ah, stack_count)
        ny == oy + stack_idx * (each + gap_inner)
        nh == IF stack_idx = stack_count - 1
              THEN ah - (each + gap_inner) * (stack_count - 1)
              ELSE each
    IN  Placed(ox + MasterW(aw) + gap_inner, ny,
               StackW(aw) - 2 * BorderB, nh - 2 * BorderB, sw, sh)

TileMaster(count, ox, oy, aw, ah, sw, sh) ==
    [ idx \in 1..count |->
        IF idx = 1
        THEN Placed(ox, oy, MasterW(aw) - 2 * BorderB, ah - 2 * BorderB, sw, sh)
        ELSE StackCell(idx - 2, count - 1, ox, oy, aw, ah, sw, sh) ]

(***************************************************************************)
(* dwindle_tile                                                            *)
(***************************************************************************)
AtLeast1(v) == IF v < 1 THEN 1 ELSE v

\* the split amount of one level, dim being w (horiz = 0) or h (horiz = 1)
SplitAmount(dim, mindim) ==
    LET a0 == (dim * DEFAULT_MASTER_FACTOR) \div 100
        a1 == IF a0 < mindim THEN mindim ELSE a0
        a2 == IF a1 > dim - (mindim + gap_inner) THEN dim - (mindim + gap_inner) ELSE a1
    IN  AtLeast1(a2)

RECURSIVE DwindleTile(_, _, _, _, _, _, _, _)
DwindleTile(n, x, y, w, h, horiz, sw, sh) ==
    IF n <= 0 THEN << >>
    ELSE IF n = 1
    THEN << Placed(x, y, AtLeast1(w - 2 * BorderB), AtLeast1(h - 2 * BorderB), sw, sh) >>
    ELSE IF horiz = 0
    THEN LET amount == SplitAmount(w, MIN_WIN_W)
             nw0 == w - amount - gap_inner
             nw == IF nw0 < MIN_WIN_W THEN MIN_WIN_W ELSE nw0
         IN  << Placed(x, y, AtLeast1(amount - 2 * BorderB),
                       AtLeast1(h - 2 * BorderB), sw, sh) >>
             \o DwindleTile(n - 1, x + amount + gap_inner, y, nw, h, 1, sw, sh)
    ELSE LET amount == SplitAmount(h, MIN_WIN_H)
             nh0 == h - amount - gap_inner
             nh == IF nh0 < MIN_WIN_H THEN MIN_WIN_H ELSE nh0
         IN  << Placed(x, y, AtLeast1(w - 2 * BorderB),
                       AtLeast1(amount - 2 * BorderB), sw, sh) >>
             \o DwindleTile(n - 1, x, y + amount + gap_inner, w, nh, 0, sw, sh)

(***************************************************************************)
(* tile_workspace as a function: the rectangles given to the count clients *)
(* of the workspace, in registry order.  rt, rb, rl, rr are the reserved   *)
(* margins at the time of the call.                                        *)
(***************************************************************************)
TileRects(count, layout, sw, sh, rt, rb, rl, rr) ==
    LET aw == AvailW(sw, rl, rr)
        ah == AvailH(sh, rt, rb)
        ox == OriginX(rl)
        oy == OriginY(rt)
    IN  IF count = 0 THEN << >>
        ELSE IF count = 1 THEN TileSingle(ox, oy, aw, ah, sw, sh)
        ELSE IF layout = LAYOUT_MASTER THEN TileMaster(count, ox, oy, aw, ah, sw, sh)
        ELSE DwindleTile(count, ox, oy, aw, ah, 0, sw, sh)

(***************************************************************************)
(* Bounds of the model                                                     *)
(***************************************************************************)
\* client records that can be allocated at the same time (calloc fails beyond)
MaxClients == 3
\* X window ids 1..MaxWin
MaxWin == 2
\* workspace keys 1..MaxWsKey+1 are pressed (workspaces 0..MaxWsKey)
MaxWsKey == 1
\* SpecTile tiles 1..MaxTileN clients
MaxTileN == 16
\* SpecPlain: client records and windows of a session of normal windows
MaxPlainClients == 3
\* Spec follows every session of at most MaxEvents events of the event loop
MaxEvents == 3

Addr == 1..MaxClients
Win == 1..MaxWin
PlainAddr == 1..MaxPlainClients
PlainWin == 1..MaxPlainClients
WsKeys == 0..MaxWsKey
Workspaces == 0..(MAX_WORKSPACES - 1)

\* the screen of Spec: DisplayWidth, DisplayHeight
ScreenW == 1000
ScreenH == 800

(***************************************************************************)
(* The environment's inputs                                                *)
(***************************************************************************)
\* _NET_WM_STRUT_PARTIAL values: left, right, top, bottom, left_start_y,
\* left_end_y, right_start_y, right_end_y, top_start_x, top_end_x,
\* bottom_start_x, bottom_end_x
NoStrut == << 0, 0, 0, 0, 0, 0, 0, 0, 0, 0, 0, 0 >>

\* what XGetWindowProperty returns for a window: whether _NET_WM_WINDOW_TYPE
\* holds the DOCK atom, and the number and values of the strut cardinals
Prop(dock_type, nitems, vals) == [dock_type |-> dock_type, nitems |-> nitems, vals |-> vals]

\* the cardinal 4294967295 (2^32 - 1)
HugeCardinal == -1

WindowProps ==
    { Prop(FALSE, 0, NoStrut),
      Prop(TRUE, 0, NoStrut),
      Prop(FALSE, 12, << 0, 0, 30, 0, 0, 0, 0, 0, 0, 999, 0, 0 >>),
      Prop(TRUE, 12, << 10, 0, 0, 20, 0, 0, 0, 0, 0, 0, 0, 0 >>),
      Prop(FALSE, 4, << 0, 40, 0, 0, 0, 0, 0, 0, 0, 0, 0, 0 >>),
      Prop(TRUE, 12, << 0, 0, HugeCardinal, 0, 0, 0, 0, 0, 0, 0, 0, 0 >>) }

\* a normal window: no window type, no strut
PlainProps == { Prop(FALSE, 0, NoStrut) }

\* width and height of a window when it asks to be mapped
WinSizes == { << 400, 300 >>, << 20, 10 >> }

\* pointer displacement of an interactive move or resize, at its last motion
Motions == { << 40, -30 >> }

\* geometry asked for by a ConfigureRequest
ReqRects == { Rect(5, 7, 640, 480) }

\* SpecTile: screens (DisplayWidth, DisplayHeight) and the margins docks reserve
TileScreens == { << 1000, 800 >>, << 1920, 1080 >>, << 2560, 1440 >>, << 320, 240 >> }
TileMargins == { 0, 30 }

TileInputs ==
    [ sw : { sc[1] : sc \in TileScreens }, sh : { sc[2] : sc \in TileScreens },
      rt : TileMargins, rb : TileMargins, rl : TileMargins, rr : TileMargins,
      count : 1..MaxTileN, layout : { LAYOUT_MASTER, LAYOUT_DWINDLE } ]

(***************************************************************************)
(* State                                                                   *)
(***************************************************************************)
VARIABLES
    phase,              \* "start", "scan" scan_existing_windows, "loop", "hung", "exited", "fatal"
    scan_next,          \* next root child scan_existing_windows looks at
    cl,                 \* the heap: address -> Client record
    live,               \* addresses allocated and not freed
    clients,            \* head of the registry
    focused,
    cycle_start,
    current_workspace,
    cycling,
    tag_mode,
    workspace_layout,
    reserved_top,
    reserved_bottom,
    reserved_left,
    reserved_right,
    mapped,             \* windows mapped on the X server
    events,             \* events run_loop has dispatched
    tile_in,            \* SpecTile: the input of tile_workspace
    tile_out,           \* SpecTile: the rectangles it placed
    probe               \* history: the operation applied and what it started with

wmvars == << phase, scan_next, cl, live, clients, focused, cycle_start,
             current_workspace, cycling, tag_mode, workspace_layout,
             reserved_top, reserved_bottom, reserved_left, reserved_right, mapped >>

tilevars == << tile_in, tile_out >>

vars == << wmvars, events, tilevars, probe >>

\* a calloc'ed Client
ZeroClient ==
    [ win |-> 0, x |-> 0, y |-> 0, w |-> 0, h |-> 0, workspace |-> 0, is_dock |-> 0,
      strut_left |-> 0, strut_right |-> 0, strut_top |-> 0, strut_bottom |-> 0,
      strut_left_start_y |-> 0, strut_left_end_y |-> 0,
      strut_right_start_y |-> 0, strut_right_end_y |-> 0,
      strut_top_start_x |-> 0, strut_top_end_x |-> 0,
      strut_bottom_start_x |-> 0, strut_bottom_end_x |-> 0,
      next |-> NULL, prev |-> NULL ]

(***************************************************************************)
(* Client list helpers                                                     *)
(***************************************************************************)
\* the addresses met by  for (c = from; c; c = c->next), at most fuel of them
RECURSIVE ListFrom(_, _, _)
ListFrom(m, from, fuel) ==
    IF from = NULL \/ fuel = 0 THEN << >>
    ELSE << from >> \o ListFrom(m, m[from].next, fuel - 1)

\* the registry in list order
Registry(m, head) == ListFrom(m, head, Cardinality(DOMAIN m))

RegistrySet(m, head) == { Registry(m, head)[i] : i \in 1..Len(Registry(m, head)) }

\* the registry clients satisfying a test, in list order
OnWorkspace(m, head, ws) == SelectSeq(Registry(m, head), LAMBDA a : m[a].workspace = ws)

find_client(m, head, w) ==
    LET hits == SelectSeq(Registry(m, head), LAMBDA a : m[a].win = w)
    IN  IF hits = << >> THEN NULL ELSE hits[1]

add_client_to_list(m, head, c) ==
    LET m1 == [m EXCEPT ![c].next = head, ![c].prev = NULL]
    IN  IF head # NULL THEN [m1 EXCEPT ![head].prev = c] ELSE m1

\* the heap after remove_client_from_list(c); c's own links are left as they are
remove_client_from_list(m, c) ==
    LET m1 == IF m[c].prev # NULL THEN [m EXCEPT ![m[c].prev].next = m[c].next] ELSE m
    IN  IF m[c].next # NULL THEN [m1 EXCEPT ![m[c].next].prev = m[c].prev] ELSE m1

\* the head after remove_client_from_list(c)
HeadAfterRemove(m, head, c) == IF head = c THEN m[c].next ELSE head

\* first registry client with workspace == ws, or NULL
FirstOnWorkspace(m, head, ws) ==
    LET s == OnWorkspace(m, head, ws)
    IN  IF s = << >> THEN NULL ELSE s[1]

(***************************************************************************)
(* Dock helpers                                                            *)
(***************************************************************************)
AnyPrimary(v) == v[1] # 0 \/ v[2] # 0 \/ v[3] # 0 \/ v[4] # 0

\* get_window_type_and_strut(w, c) when the window's properties are p
get_window_type_and_strut(c, p) ==
    LET v == p.vals
        c0 == [ c EXCEPT !.is_dock = IF p.dock_type THEN 1 ELSE 0,
                  !.strut_left = 0, !.strut_right = 0, !.strut_top = 0, !.strut_bottom = 0,
                  !.strut_left_start_y = 0, !.strut_left_end_y = 0,
                  !.strut_right_start_y = 0, !.strut_right_end_y = 0,
                  !.strut_top_start_x = 0, !.strut_top_end_x = 0,
                  !.strut_bottom_start_x = 0, !.strut_bottom_end_x = 0 ]
        c4 == IF p.nitems >= 4
              THEN [ c0 EXCEPT !.strut_left = v[1], !.strut_right = v[2],
                       !.strut_top = v[3], !.strut_bottom = v[4] ]
              ELSE c0
    IN  IF p.nitems >= 12
        THEN [ c4 EXCEPT !.strut_left_start_y = v[5], !.strut_left_end_y = v[6],
                 !.strut_right_start_y = v[7], !.strut_right_end_y = v[8],
                 !.strut_top_start_x = v[9], !.strut_top_end_x = v[10],
                 !.strut_bottom_start_x = v[11], !.strut_bottom_end_x = v[12],
                 !.is_dock = IF AnyPrimary(v) THEN 1 ELSE c4.is_dock ]
        ELSE c4

\* the loop of update_global_struts for one side, s being the int casts of
\* that side's strut of each registry client, 0 for a client that is skipped
RECURSIVE MaxFold(_, _)
MaxFold(s, acc) ==
    IF s = << >> THEN acc
    ELSE MaxFold(Tail(s), IF Head(s) > acc THEN Head(s) ELSE acc)

DockStrut(c, side) ==
    IF c.is_dock = 0 THEN 0
    ELSE (CASE side = "top" -> c.strut_top
                 [] side = "bottom" -> c.strut_bottom
                 [] side = "left" -> c.strut_left
                 [] OTHER -> c.strut_right)

ReservedSide(m, head, side) ==
    LET reg == Registry(m, head)
    IN  MaxFold([ i \in 1..Len(reg) |-> DockStrut(m[reg[i]], side) ], 0)

\* a variant of apply_dock_geometry that ignores the partial coordinates of
\* the strut: every dock spans the screen's width at the top
apply_dock_geometry_full_width(c, sw, sh, rt, rb, rl, rr) ==
    IF c.is_dock = 0 THEN c
    ELSE [ c EXCEPT !.x = 0, !.y = 0, !.w = sw,
                    !.h = IF c.strut_top < 1 THEN 1
                          ELSE IF c.strut_top > sh THEN sh ELSE c.strut_top ]

\* apply_dock_geometry(c) on a sw x sh screen with the reserved margins rt, rb, rl, rr
apply_dock_geometry(c, sw, sh, rt, rb, rl, rr) ==
    IF c.is_dock = 0 THEN c
    ELSE
    LET g == IF c.strut_top # 0
             THEN IF ULess(c.strut_top_start_x, c.strut_top_end_x)
                  THEN Rect(c.strut_top_start_x, 0,
                            (c.strut_top_end_x - c.strut_top_start_x + 1),
                            c.strut_top)
                  ELSE Rect(0, 0, sw - rl - rr, c.strut_top)
             ELSE IF c.strut_bottom # 0
             THEN IF ULess(c.strut_bottom_start_x, c.strut_bottom_end_x)
                  THEN Rect(c.strut_bottom_start_x, sh - c.strut_bottom,
                            (c.strut_bottom_end_x - c.strut_bottom_start_x + 1),
                            c.strut_bottom)
                  ELSE Rect(0, sh - c.strut_bottom, sw - rl - rr,
                            c.strut_bottom)
             ELSE IF c.strut_left # 0
             THEN IF ULess(c.strut_left_start_y, c.strut_left_end_y)
                  THEN Rect(0, c.strut_left_start_y, c.strut_left,
                            (c.strut_left_end_y - c.strut_left_start_y + 1))
                  ELSE Rect(0, 0, c.strut_left, sh - rt - rb)
             ELSE IF c.strut_right # 0
             THEN IF ULess(c.strut_right_start_y, c.strut_right_end_y)
                  THEN Rect(sw - c.strut_right, c.strut_right_start_y,
                            c.strut_right,
                            (c.strut_right_end_y - c.strut_right_start_y + 1))
                  ELSE Rect(sw - c.strut_right, 0, c.strut_right,
                            sh - rt - rb)
             ELSE Rect(c.x, c.y, c.w, c.h)
        nx == IF g.x < 0 THEN 0 ELSE g.x
        ny == IF g.y < 0 THEN 0 ELSE g.y
        w1 == IF g.w < 1 THEN 1 ELSE g.w
        h1 == IF g.h < 1 THEN 1 ELSE g.h
        nw == IF nx + w1 > sw THEN sw - nx ELSE w1
        nh == IF ny + h1 > sh THEN sh - ny ELSE h1
    IN  [ c EXCEPT !.x = nx, !.y = ny, !.w = nw, !.h = nh ]

\* the windows mapped after restack_docks (XMapWindow of every dock)
restack_docks(m, head, mp) ==
    mp \cup { m[a].win : a \in { b \in RegistrySet(m, head) : m[b].is_dock = 1 } }

(***************************************************************************)
(* The window manager's state as one value, so that a handler is an        *)
(* operator from state to state and calls compose as in the code.          *)
(***************************************************************************)
Cur ==
    [ phase |-> phase, scan_next |-> scan_next, cl |-> cl, live |-> live,
      clients |-> clients, focused |-> focused, cycle_start |-> cycle_start,
      current_workspace |-> current_workspace, cycling |-> cycling,
      tag_mode |-> tag_mode, workspace_layout |-> workspace_layout,
      reserved_top |-> reserved_top, reserved_bottom |-> reserved_bottom,
      reserved_left |-> reserved_left, reserved_right |-> reserved_right,
      mapped |-> mapped ]

\* Freed memory that no pointer of the program refers to any more is not
\* observable: it is kept zeroed.  A freed record `focused` still points to
\* keeps its last contents.
Normalize(s) ==
    [ s EXCEPT !.cl = [ a \in DOMAIN s.cl |->
                          IF a \in s.live \/ a = s.focused THEN s.cl[a] ELSE ZeroClient ] ]

Becomes(s0) ==
    LET s == Normalize(s0)
    IN  /\ phase' = s.phase
        /\ scan_next' = s.scan_next
        /\ cl' = s.cl
        /\ live' = s.live
        /\ clients' = s.clients
        /\ focused' = s.focused
        /\ cycle_start' = s.cycle_start
        /\ current_workspace' = s.current_workspace
        /\ cycling' = s.cycling
        /\ tag_mode' = s.tag_mode
        /\ workspace_layout' = s.workspace_layout
        /\ reserved_top' = s.reserved_top
        /\ reserved_bottom' = s.reserved_bottom
        /\ reserved_left' = s.reserved_left
        /\ reserved_right' = s.reserved_right
        /\ mapped' = s.mapped
        /\ UNCHANGED tilevars

\* the rectangle stored in the record at address a
GeomOf(s, a) == Rect(s.cl[a].x, s.cl[a].y, s.cl[a].w, s.cl[a].h)

\* `focused` is NULL or points to allocated memory: it can be dereferenced
FocusValid(s) == s.focused = NULL \/ s.focused \in s.live

update_global_struts(s) ==
    [ s EXCEPT !.reserved_top = ReservedSide(s.cl, s.clients, "top"),
               !.reserved_bottom = ReservedSide(s.cl, s.clients, "bottom"),
               !.reserved_left = ReservedSide(s.cl, s.clients, "left"),
               !.reserved_right = ReservedSide(s.cl, s.clients, "right") ]

\* update_borders: border widths and colours are not modelled; restack_docks
\* maps every dock
update_borders(s) == [ s EXCEPT !.mapped = restack_docks(s.cl, s.clients, s.mapped) ]

(***************************************************************************)
(* tile_workspace(ws) on the state                                         *)
(***************************************************************************)
\* position of address a in sequence q (a occurs in q)
IndexOf(q, a) == CHOOSE i \in 1..Len(q) : q[i] = a

tile_workspace(s, ws) ==
    IF ws < 0 \/ ws >= MAX_WORKSPACES THEN s
    ELSE
    LET on == OnWorkspace(s.cl, s.clients, ws)
        rects == TileRects(Len(on), s.workspace_layout[ws], ScreenW, ScreenH,
                           s.reserved_top, s.reserved_bottom,
                           s.reserved_left, s.reserved_right)
        onset == { on[i] : i \in 1..Len(on) }
    IN  [ s EXCEPT !.cl = [ a \in DOMAIN s.cl |->
            IF a \in onset
            THEN LET r == rects[IndexOf(on, a)]
                 IN  [ s.cl[a] EXCEPT !.x = r.x, !.y = r.y, !.w = r.w, !.h = r.h ]
            ELSE s.cl[a] ] ]

\* a variant of configure_request that honours the request of a dock, too
configure_request_honoured(s, w, p, wa) ==
    LET c == find_client(s.cl, s.clients, w)
    IN  IF c # NULL
        THEN [ s EXCEPT !.cl[c].x = wa.x, !.cl[c].y = wa.y,
                        !.cl[c].w = ClampW(wa.w, ScreenW),
                        !.cl[c].h = ClampH(wa.h, ScreenH) ]
        ELSE s

\* a variant of tile_if_tiling that tiles whatever the mode
tile_whatever_mode(s, ws) ==
    IF ws >= 0 /\ ws < MAX_WORKSPACES THEN tile_workspace(s, ws) ELSE s

tile_if_tiling(s, ws) ==
    IF ws >= 0 /\ ws < MAX_WORKSPACES /\ s.tag_mode[ws] = MODE_TILING
    THEN tile_workspace(s, ws) ELSE s

\* for (i = from; i < MAX_WORKSPACES; ++i) if (tag_mode[i] == MODE_TILING) tile_workspace(i)
RECURSIVE TileAllFrom(_, _)
TileAllFrom(s, i) ==
    IF i >= MAX_WORKSPACES THEN s ELSE TileAllFrom(tile_if_tiling(s, i), i + 1)

(***************************************************************************)
(* manage(w).  p: the window's properties; override: wa.override_redirect; *)
(* size: wa.width, wa.height; a: the address calloc returns.               *)
(***************************************************************************)
manage(s, w, p, override, size, a) ==
    LET c1 == get_window_type_and_strut(
                  [ ZeroClient EXCEPT !.win = w, !.workspace = s.current_workspace ], p)
        cw == ClampW(size[1], ScreenW)
        ch == ClampH(size[2], ScreenH)
        c2 == [ c1 EXCEPT !.w = cw, !.h = ch,
                          !.x = (ScreenW - cw) \div 2,
                          !.y = (ScreenH - ch) \div 2 ]
        m1 == add_client_to_list([ s.cl EXCEPT ![a] = c2 ], s.clients, a)
        s1 == [ s EXCEPT !.cl = m1, !.clients = a, !.live = s.live \cup {a} ]
    IN  IF override /\ c1.is_dock = 0 THEN s
        ELSE IF c1.is_dock = 1
        THEN LET d == apply_dock_geometry([ m1[a] EXCEPT !.workspace = -1 ],
                          ScreenW, ScreenH, s.reserved_top, s.reserved_bottom,
                          s.reserved_left, s.reserved_right)
                 s2 == [ s1 EXCEPT !.cl = [ m1 EXCEPT ![a] = d ],
                                   !.mapped = s.mapped \cup {w} ]
             IN  update_borders(update_global_struts(s2))
        ELSE LET s2 == [ s1 EXCEPT !.mapped = s.mapped \cup {w}, !.focused = a ]
             IN  tile_if_tiling(update_borders(s2), s.current_workspace)

(***************************************************************************)
(* unmanage(w).  After free(c) the code reads focused->win; when focused   *)
(* is the record just freed (or was left dangling before) that read is of  *)
(* freed memory and yields either the old handle (stale = TRUE) or a value *)
(* that is no window handle.                                               *)
(***************************************************************************)
unmanage(s, w, stale) ==
    LET c == find_client(s.cl, s.clients, w)
    IN  IF c = NULL THEN s
        ELSE
        LET ws == s.cl[c].workspace
            m1 == remove_client_from_list(s.cl, c)
            h1 == HeadAfterRemove(s.cl, s.clients, c)
            s1 == update_global_struts(
                      [ s EXCEPT !.cl = m1, !.clients = h1, !.live = s.live \ {c} ])
            fwin == IF s.focused \in s1.live \/ stale THEN m1[s.focused].win ELSE 0
            s2 == IF s.focused # NULL /\ find_client(m1, h1, fwin) = NULL
                  THEN update_borders(
                           [ s1 EXCEPT !.focused =
                               FirstOnWorkspace(m1, h1, s.current_workspace) ])
                  ELSE s1
        IN  tile_if_tiling(s2, ws)

(***************************************************************************)
(* Workspaces                                                              *)
(***************************************************************************)
\* the first loop of switch_workspace: XMapWindow or XUnmapWindow per client,
\* in list order
RECURSIVE MapLoop(_, _, _, _)
MapLoop(m, reg, ws, mp) ==
    IF reg = << >> THEN mp
    ELSE LET c == m[Head(reg)]
         IN  MapLoop(m, Tail(reg), ws,
                     IF c.workspace = ws \/ c.workspace = -1
                     THEN mp \cup {c.win} ELSE mp \ {c.win})

switch_workspace(s, ws) ==
    IF ws < 0 \/ ws >= MAX_WORKSPACES \/ ws = s.current_workspace THEN s
    ELSE
    LET s1 == [ s EXCEPT !.current_workspace = ws,
                         !.mapped = MapLoop(s.cl, Registry(s.cl, s.clients), ws, s.mapped),
                         !.focused = FirstOnWorkspace(s.cl, s.clients, ws) ]
    IN  update_borders(tile_if_tiling(s1, ws))

\* requires focused to be dereferenceable
move_focused_to_workspace(s, ws) ==
    IF s.focused = NULL \/ ws < 0 \/ ws >= MAX_WORKSPACES THEN s
    ELSE
    LET s1 == [ s EXCEPT !.cl[s.focused].workspace = ws,
                         !.mapped = IF ws # s.current_workspace
                                    THEN s.mapped \ {s.cl[s.focused].win}
                                    ELSE s.mapped ]
    IN  tile_if_tiling(tile_if_tiling(s1, ws), s.current_workspace)

set_workspace_mode(s, ws, mode) ==
    IF ws < 0 \/ ws >= MAX_WORKSPACES THEN s
    ELSE tile_if_tiling(
             [ s EXCEPT !.tag_mode[ws] =
                 IF mode = MODE_TILING THEN MODE_TILING ELSE MODE_FLOATING ], ws)

RECURSIVE SetModeFrom(_, _, _)
SetModeFrom(s, mode, w) ==
    IF w >= MAX_WORKSPACES THEN s
    ELSE SetModeFrom(set_workspace_mode(s, w, mode), mode, w + 1)

set_mode_for_all(s, mode) == SetModeFrom(s, mode, 0)

(***************************************************************************)
(* Focus                                                                   *)
(***************************************************************************)
focus_client_proper(s, c) ==
    IF c = NULL THEN s
    ELSE IF s.cl[c].workspace # s.current_workspace THEN s
    ELSE IF s.focused # NULL /\ s.focused = c THEN s
    ELSE update_borders([ s EXCEPT !.focused = c ])

make_priority(s, c) ==
    IF c = NULL THEN s
    ELSE update_borders([ s EXCEPT !.focused = c,
                                   !.mapped = s.mapped \cup {s.cl[c].win} ])

(***************************************************************************)
(* Alt-Tab                                                                 *)
(***************************************************************************)
start_cycle(s) ==
    IF s.clients = NULL THEN s
    ELSE [ s EXCEPT !.cycling = 1, !.cycle_start = s.focused ]

stop_cycle(s) == [ s EXCEPT !.cycling = 0, !.cycle_start = NULL ]

\* result of a loop that never ends
HANG == -1

\* c = forward ? (c->next ? c->next : clients) : (c->prev ? c->prev : NULL);
\* if (!c) c = clients;
CycleStep(s, c, forward) ==
    LET n == IF forward
             THEN (IF s.cl[c].next # NULL THEN s.cl[c].next ELSE s.clients)
             ELSE (IF s.cl[c].prev # NULL THEN s.cl[c].prev ELSE NULL)
    IN  IF n = NULL THEN s.clients ELSE n

\* the inner while loop entered with c; the loop's state is c alone, so a
\* run of more iterations than there are records never ends
RECURSIVE CycleInner(_, _, _, _, _)
CycleInner(s, c, start, forward, fuel) ==
    IF s.cl[c].workspace = s.current_workspace THEN c
    ELSE LET n == CycleStep(s, c, forward)
         IN  IF n = start THEN n
             ELSE IF fuel = 0 THEN HANG
             ELSE CycleInner(s, n, start, forward, fuel - 1)

\* the do ... while loop entered with c
RECURSIVE CycleOuter(_, _, _, _, _)
CycleOuter(s, c, start, forward, fuel) ==
    LET c2 == CycleInner(s, CycleStep(s, c, forward), start, forward, Cardinality(DOMAIN s.cl) + 1)
    IN  IF c2 = HANG THEN HANG
        ELSE IF s.cl[c2].workspace = s.current_workspace THEN c2
        ELSE IF c2 = start THEN c2
        ELSE IF fuel = 0 THEN HANG
        ELSE CycleOuter(s, c2, start, forward, fuel - 1)

\* requires focused to be dereferenceable
cycle_focus(s, forward) ==
    IF s.clients = NULL \/ s.cycling = 0 THEN s
    ELSE
    LET start == IF s.focused # NULL THEN s.focused ELSE s.clients
        c == CycleOuter(s, start, start, forward, Cardinality(DOMAIN s.cl) + 1)
    IN  IF c = HANG THEN [ s EXCEPT !.phase = "hung" ]
        ELSE IF c # s.focused THEN update_borders([ s EXCEPT !.focused = c ])
        ELSE s

(***************************************************************************)
(* Directional neighbour                                                   *)
(***************************************************************************)
Abs(v) == IF v < 0 THEN -v ELSE v

\* C integer division, which truncates toward zero
CDiv(a, b) == IF a >= 0 THEN a \div b ELSE -((-a) \div b)

overlap_len(a1, a2, b1, b2) ==
    LET lo == IF a1 > b1 THEN a1 ELSE b1
        hi == IF a2 < b2 THEN a2 ELSE b2
    IN  IF hi > lo THEN hi - lo ELSE 0

\* one candidate c against the current client cur: overlap_perp, in_dir,
\* primary, secondary and the squared centre distance
Candidate(cur, c, dir) ==
    LET cx1 == cur.x
        cy1 == cur.y
        cx2 == cur.x + cur.w
        cy2 == cur.y + cur.h
        ccx == cx1 + CDiv(cur.w, 2)
        ccy == cy1 + CDiv(cur.h, 2)
        ax1 == c.x
        ay1 == c.y
        ax2 == c.x + c.w
        ay2 == c.y + c.h
        acx == ax1 + CDiv(c.w, 2)
        acy == ay1 + CDiv(c.h, 2)
        horizontal == dir = 0 \/ dir = 3
        ov == IF horizontal THEN overlap_len(ay1, ay2, cy1, cy2)
              ELSE overlap_len(ax1, ax2, cx1, cx2)
        far == CASE dir = 0 -> ax2 <= cx1
                 [] dir = 3 -> ax1 >= cx2
                 [] dir = 2 -> ay2 <= cy1
                 [] OTHER -> ay1 >= cy2
        gap == CASE dir = 0 -> cx1 - ax2
                 [] dir = 3 -> ax1 - cx2
                 [] dir = 2 -> cy1 - ay2
                 [] OTHER -> ay1 - cy2
        near == CASE dir = 0 -> ax1 < cx1
                  [] dir = 3 -> ax2 > cx2
                  [] dir = 2 -> ay1 < cy1
                  [] OTHER -> ay2 > cy2
        in_dir == far \/ (ov > 0 /\ near)
        primary == IF far THEN gap
                   ELSE IF ov > 0 /\ near THEN 0
                   ELSE IF horizontal THEN Abs(acx - ccx) ELSE Abs(acy - ccy)
        secondary == IF ov > 0 THEN 0
                     ELSE IF horizontal THEN Abs(acy - ccy) ELSE Abs(acx - ccx)
    IN  [ ov |-> ov, in_dir |-> in_dir, primary |-> primary, secondary |-> secondary,
          center_dist |-> (acx - ccx) * (acx - ccx) + (acy - ccy) * (acy - ccy) ]

\* the candidate loop; acc holds best, best_score and found_in_dir.  best_score
\* starts at LLONG_MAX, which is above every score, so the first candidate
\* is always taken: acc.score is read only once best is set
RECURSIVE NeighborLoop(_, _, _, _, _)
NeighborLoop(s, reg, cur, dir, acc) ==
    IF reg = << >> THEN acc.best
    ELSE
    LET a == Head(reg)
        c == s.cl[a]
    IN  IF c.workspace # s.current_workspace \/ a = cur \/ c.is_dock # 0
        THEN NeighborLoop(s, Tail(reg), cur, dir, acc)
        ELSE
        LET k == Candidate(s.cl[cur], c, dir)
            found == acc.found \/ k.in_dir
            score0 == k.primary * 100000 + k.secondary * 100
            score1 == IF k.in_dir
                      THEN score0 - 1000000000 - (IF k.ov > 0 THEN 500000000 ELSE 0)
                      ELSE score0
            score == IF ~found THEN k.center_dist ELSE score1
        IN  NeighborLoop(s, Tail(reg), cur, dir,
                IF acc.best = NULL \/ score < acc.score
                THEN [ best |-> a, score |-> score, found |-> found ]
                ELSE [ acc EXCEPT !.found = found ])

\* a variant of find_neighbor_in_direction that returns the registry's
\* head, whatever it is
find_neighbor_registry_head(s, cur, dir) == s.clients

\* requires cur to be NULL or dereferenceable
find_neighbor_in_direction(s, cur, dir) ==
    IF s.clients = NULL THEN NULL
    ELSE
    LET start == IF cur = NULL \/ s.cl[cur].workspace # s.current_workspace
                 THEN FirstOnWorkspace(s.cl, s.clients, s.current_workspace)
                 ELSE cur
    IN  IF start = NULL THEN NULL
        ELSE NeighborLoop(s, Registry(s.cl, s.clients), start, dir,
                          [ best |-> NULL, score |-> 0, found |-> FALSE ])

(***************************************************************************)
(* swap_clients                                                            *)
(***************************************************************************)
SetNext(m, a, v) == IF a = NULL THEN m ELSE [ m EXCEPT ![a].next = v ]

SetPrev(m, a, v) == IF a = NULL THEN m ELSE [ m EXCEPT ![a].prev = v ]

\* a faulty adjacent swap that leaves b_next->prev pointing to b
SwapAdjacentStaleBack(m, a, b) ==
    LET a_prev == m[a].prev
        b_next == m[b].next
        m1 == SetNext(m, a_prev, b)
        m2 == SetPrev(m1, b, a_prev)
        m3 == SetNext(m2, a, b_next)
        m5 == SetNext(m3, b, a)
    IN  SetPrev(m5, a, b)

\* the a_next == b branch: a immediately before b
SwapAdjacent(m, a, b) ==
    LET a_prev == m[a].prev
        b_next == m[b].next
        m1 == SetNext(m, a_prev, b)
        m2 == SetPrev(m1, b, a_prev)
        m3 == SetNext(m2, a, b_next)
        m4 == SetPrev(m3, b_next, a)
        m5 == SetNext(m4, b, a)
    IN  SetPrev(m5, a, b)

\* a faulty swap of two clients apart that leaves b_prev->next pointing to b
SwapApartStaleNext(m, a, b) ==
    LET a_prev == m[a].prev
        a_next == m[a].next
        b_prev == m[b].prev
        b_next == m[b].next
        m1 == SetNext(m, a_prev, b)
        m2 == SetPrev(m1, a_next, b)
        m4 == SetPrev(m2, b_next, a)
        m5 == SetPrev(m4, a, b_prev)
        m6 == SetNext(m5, a, b_next)
        m7 == SetPrev(m6, b, a_prev)
    IN  SetNext(m7, b, a_next)

SwapApart(m, a, b) ==
    LET a_prev == m[a].prev
        a_next == m[a].next
        b_prev == m[b].prev
        b_next == m[b].next
        m1 == SetNext(m, a_prev, b)
        m2 == SetPrev(m1, a_next, b)
        m3 == SetNext(m2, b_prev, a)
        m4 == SetPrev(m3, b_next, a)
        m5 == SetPrev(m4, a, b_prev)
        m6 == SetNext(m5, a, b_next)
        m7 == SetPrev(m6, b, a_prev)
    IN  SetNext(m7, b, a_next)

\* the heap after swap_clients(a, b)
swap_clients(m, a, b) ==
    IF a = NULL \/ b = NULL \/ a = b THEN m
    ELSE IF m[a].workspace # m[b].workspace THEN m
    ELSE IF m[a].next = b THEN SwapAdjacent(m, a, b)
    ELSE IF m[b].next = a THEN SwapAdjacent(m, b, a)
    ELSE SwapApart(m, a, b)

\* a faulty head update that forgets the case of b being the head
SwapHeadOfFirst(m, head, a, b) ==
    IF a = NULL \/ b = NULL \/ a = b THEN head
    ELSE IF m[a].workspace # m[b].workspace THEN head
    ELSE IF head = a THEN b
    ELSE head

\* the head after swap_clients(a, b)
SwapHead(m, head, a, b) ==
    IF a = NULL \/ b = NULL \/ a = b THEN head
    ELSE IF m[a].workspace # m[b].workspace THEN head
    ELSE IF head = a THEN b
    ELSE IF head = b THEN a
    ELSE head

\* a faulty swap_clients_keep_focus that ends with the focus on b
swap_clients_move_focus(s, a, b) ==
    IF a = NULL \/ b = NULL \/ a = b THEN s
    ELSE IF s.cl[a].workspace # s.cl[b].workspace THEN s
    ELSE IF s.cl[a].is_dock # 0 \/ s.cl[b].is_dock # 0 THEN s
    ELSE
    LET s1 == [ s EXCEPT !.cl = swap_clients(s.cl, a, b),
                         !.clients = SwapHead(s.cl, s.clients, a, b) ]
        s2 == tile_if_tiling(s1, s.current_workspace)
    IN  focus_client_proper(update_borders(update_global_struts(s2)), b)

swap_clients_keep_focus(s, a, b) ==
    IF a = NULL \/ b = NULL \/ a = b THEN s
    ELSE IF s.cl[a].workspace # s.cl[b].workspace THEN s
    ELSE IF s.cl[a].is_dock # 0 \/ s.cl[b].is_dock # 0 THEN s
    ELSE
    LET s1 == [ s EXCEPT !.cl = swap_clients(s.cl, a, b),
                         !.clients = SwapHead(s.cl, s.clients, a, b) ]
        s2 == tile_if_tiling(s1, s.current_workspace)
    IN  focus_client_proper(update_borders(update_global_struts(s2)), a)

(***************************************************************************)
(* focus_in_direction and toggle_fullscreen                                *)
(***************************************************************************)
\* the loop of the !focused branch: the extreme client of the workspace
RECURSIVE ExtremeLoop(_, _, _, _)
ExtremeLoop(s, reg, dir, best) ==
    IF reg = << >> THEN best
    ELSE
    LET a == Head(reg)
        c == s.cl[a]
    IN  IF c.workspace # s.current_workspace \/ c.is_dock # 0
        THEN ExtremeLoop(s, Tail(reg), dir, best)
        ELSE IF best = NULL THEN ExtremeLoop(s, Tail(reg), dir, a)
        ELSE
        LET bcx == s.cl[best].x + CDiv(s.cl[best].w, 2)
            bcy == s.cl[best].y + CDiv(s.cl[best].h, 2)
            ccx == c.x + CDiv(c.w, 2)
            ccy == c.y + CDiv(c.h, 2)
            better == CASE dir = 3 -> ccx > bcx
                        [] dir = 0 -> ccx < bcx
                        [] dir = 2 -> ccy < bcy
                        [] OTHER -> ccy > bcy
        IN  ExtremeLoop(s, Tail(reg), dir, IF better THEN a ELSE best)

\* requires focused to be dereferenceable
focus_in_direction(s, dir) ==
    IF s.focused = NULL
    THEN focus_client_proper(s, ExtremeLoop(s, Registry(s.cl, s.clients), dir, NULL))
    ELSE
    LET cand == find_neighbor_in_direction(s, s.focused, dir)
    IN  IF cand # NULL /\ s.cl[cand].workspace = s.current_workspace
           /\ s.cl[cand].is_dock = 0
        THEN focus_client_proper(s, cand)
        ELSE s

toggle_fullscreen(s, c) ==
    IF c = NULL THEN s
    ELSE
    LET k == s.cl[c]
        nw == (ScreenW * 2) \div 3
        nh == (ScreenH * 2) \div 3
    IN  IF k.x = 0 /\ k.y = 0 /\ k.w = ScreenW /\ k.h = ScreenH
        THEN [ s EXCEPT !.cl[c].x = (ScreenW - nw) \div 2, !.cl[c].y = (ScreenH - nh) \div 2,
                        !.cl[c].w = nw, !.cl[c].h = nh ]
        ELSE [ s EXCEPT !.cl[c].x = 0, !.cl[c].y = 0,
                        !.cl[c].w = ScreenW, !.cl[c].h = ScreenH ]

(***************************************************************************)
(* Initial state: main() up to scan_existing_windows.  The layout is the   *)
(* build's DEFAULT_LAYOUT_NAME, "dwindle" or "master".                     *)
(***************************************************************************)
NoTileInput ==
    [ sw |-> 0, sh |-> 0, rt |-> 0, rb |-> 0, rl |-> 0, rr |-> 0,
      count |-> 0, layout |-> LAYOUT_MASTER ]

\* no operation has been applied
NoProbe == [ op |-> "none" ]

InitWM(layout, heap) ==
    /\ phase = "scan"
    /\ scan_next = 1
    /\ cl = [ a \in heap |-> ZeroClient ]
    /\ live = {}
    /\ clients = NULL
    /\ focused = NULL
    /\ cycle_start = NULL
    /\ current_workspace = 0
    /\ cycling = 0
    /\ tag_mode = [ i \in Workspaces |->
                      IF DEFAULT_TAG_MODE # 0 THEN MODE_TILING ELSE MODE_FLOATING ]
    /\ workspace_layout = [ i \in Workspaces |-> layout ]
    /\ reserved_top = 0
    /\ reserved_bottom = 0
    /\ reserved_left = 0
    /\ reserved_right = 0
    /\ mapped = {}

Init ==
    /\ \E layout \in { LAYOUT_MASTER, LAYOUT_DWINDLE } : InitWM(layout, Addr)
    /\ events = 0
    /\ tile_in = NoTileInput
    /\ tile_out = << >>
    /\ probe = NoProbe

(***************************************************************************)
(* Startup: scan_existing_windows, then the rest of main()                 *)
(***************************************************************************)
\* the addresses calloc may return: the lowest free one, or the one a
\* dangling `focused` still points to; none when the heap is exhausted
AllocChoices(s) ==
    LET free == DOMAIN s.cl \ s.live
    IN  IF free = {} THEN {}
        ELSE { CHOOSE a \in free : \A b \in free : a <= b }
             \cup (IF s.focused \in free THEN { s.focused } ELSE {})

\* manage(w) with the address calloc returns; a failed calloc drops the window
Manage(s, w, p, override, size) ==
    IF AllocChoices(s) = {} THEN Becomes(s)
    ELSE \E a \in AllocChoices(s) : Becomes(manage(s, w, p, override, size, a))

\* one child of the root: XGetWindowAttributes succeeds and it is managed
ScanManage ==
    /\ phase = "scan"
    /\ scan_next <= MaxWin
    /\ \E p \in WindowProps, override \in BOOLEAN, size \in WinSizes :
          Manage([ Cur EXCEPT !.scan_next = scan_next + 1 ], scan_next, p, override, size)

\* a window id that is no child of the root
ScanSkip ==
    /\ phase = "scan"
    /\ scan_next <= MaxWin
    /\ Becomes([ Cur EXCEPT !.scan_next = scan_next + 1 ])

\* update_global_struts(); tile every TILING workspace; run_loop()
StartLoop ==
    /\ phase = "scan"
    /\ scan_next > MaxWin
    /\ Becomes(TileAllFrom(update_global_struts([ Cur EXCEPT !.phase = "loop" ]), 0))

(***************************************************************************)
(* Event handlers.  Each action is one iteration of run_loop: XNextEvent   *)
(* and the handler it dispatches to, run to completion.                    *)
(*                                                                         *)
(* A handler that dereferences `focused` is followed only while `focused`  *)
(* is NULL or points to allocated memory; what the program does when it    *)
(* dereferences a dangling `focused` is not modelled.                      *)
(***************************************************************************)
\* find_toplevel_client_from_window(w) for a top-level window w
find_toplevel_client_from_window(s, w) == find_client(s.cl, s.clients, w)

\* MapRequest: X sends it for a window that is not mapped.  W: the windows
\* of the session, P: the properties they may carry, S: their sizes
MapRequest(W, P, S) ==
    /\ phase = "loop"
    /\ \E w \in W \ mapped, p \in P, override \in BOOLEAN, size \in S :
          Manage(Cur, w, p, override, size)

handle_maprequest == MapRequest(Win, WindowProps, WinSizes)

\* DestroyNotify: the window is gone
DestroyNotify(W) ==
    /\ phase = "loop"
    /\ \E w \in W, stale \in BOOLEAN :
          Becomes(unmanage([ Cur EXCEPT !.mapped = mapped \ {w} ], w, stale))

handle_destroynotify == DestroyNotify(Win)

\* UnmapNotify: a client unmapped its window; the handler does nothing
handle_unmapnotify ==
    /\ phase = "loop"
    /\ \E w \in mapped : Becomes([ Cur EXCEPT !.mapped = mapped \ {w} ])

\* ClientMessage WM_PROTOCOLS / WM_DELETE_WINDOW
handle_clientmessage ==
    /\ phase = "loop"
    /\ \E w \in Win, stale \in BOOLEAN : Becomes(unmanage(Cur, w, stale))

\* ConfigureRequest asking for geometry req; p: the properties a dock has now
\* handle_configurerequest for window w; p: the properties a dock's window
\* has now; wa: the geometry XGetWindowAttributes reports after
\* XConfigureWindow
configure_request(s, w, p, wa) ==
    LET c == find_client(s.cl, s.clients, w)
    IN  IF c # NULL /\ s.cl[c].is_dock # 0
        THEN LET d == apply_dock_geometry(get_window_type_and_strut(s.cl[c], p),
                          ScreenW, ScreenH, s.reserved_top, s.reserved_bottom,
                          s.reserved_left, s.reserved_right)
             IN  update_borders(update_global_struts([ s EXCEPT !.cl[c] = d ]))
        ELSE IF c # NULL
        THEN [ s EXCEPT !.cl[c].x = wa.x, !.cl[c].y = wa.y,
                        !.cl[c].w = ClampW(wa.w, ScreenW),
                        !.cl[c].h = ClampH(wa.h, ScreenH) ]
        ELSE s

\* a request with every field in its value mask: the window gets the
\* requested rectangle
handle_configurerequest ==
    /\ phase = "loop"
    /\ \E w \in Win, p \in WindowProps, req \in ReqRects :
          Becomes(configure_request(Cur, w, p, req))

\* EnterNotify on a mapped window
handle_enternotify ==
    /\ phase = "loop"
    /\ \E w \in mapped :
          LET c == find_toplevel_client_from_window(Cur, w)
          IN  IF c # NULL /\ cl[c].workspace = current_workspace /\ cl[c].is_dock = 0
              THEN Becomes(make_priority(Cur, c))
              ELSE Becomes(Cur)

\* focus_window_at_pointer with the pointer over the mapped window w
focus_window_at_pointer(s, w) ==
    LET c == find_toplevel_client_from_window(s, w)
    IN  IF c = NULL THEN s
        ELSE IF s.cl[c].is_dock # 0 THEN s
        ELSE IF s.cl[c].workspace = s.current_workspace THEN make_priority(s, c)
        ELSE s

\* MotionNotify; w = 0: the pointer is over the root
handle_motionnotify ==
    /\ phase = "loop"
    /\ \E w \in mapped \cup {0} : Becomes(focus_window_at_pointer(Cur, w))

\* move_client: the nested pump ends with the pointer displaced by d
move_client(s, c, d) ==
    IF c = NULL \/ s.cl[c].is_dock # 0 THEN s
    ELSE [ s EXCEPT !.cl[c].x = s.cl[c].x + d[1], !.cl[c].y = s.cl[c].y + d[2] ]

resize_client(s, c, d) ==
    IF c = NULL \/ s.cl[c].is_dock # 0 THEN s
    ELSE
    LET nw == s.cl[c].w + d[1]
        nh == s.cl[c].h + d[2]
    IN  [ s EXCEPT !.cl[c].w = (IF nw < MIN_WIN_W THEN MIN_WIN_W ELSE nw),
                   !.cl[c].h = (IF nh < MIN_WIN_H THEN MIN_WIN_H ELSE nh) ]

\* ButtonPress on a mapped window with button 1, 2 or 3; moved: whether a
\* MotionNotify arrives before the ButtonRelease
handle_buttonpress ==
    /\ phase = "loop"
    /\ \E w \in mapped, button \in 1..3, moved \in BOOLEAN, d \in Motions :
          LET c == find_toplevel_client_from_window(Cur, w)
          IN  IF c = NULL THEN Becomes(Cur)
              ELSE IF cl[c].is_dock # 0 THEN Becomes(Cur)
              ELSE LET s1 == make_priority(Cur, c)
                   IN  IF button = 1 /\ moved THEN Becomes(move_client(s1, c, d))
                       ELSE IF button = 3 /\ moved THEN Becomes(resize_client(s1, c, d))
                       ELSE Becomes(s1)

\* Mod+q, Mod+a: send_wm_delete(focused->win) changes nothing in the manager
KeyClose ==
    /\ phase = "loop"
    /\ FocusValid(Cur)
    /\ Becomes(Cur)

\* Mod+Shift+digit for workspace ws
MoveToWorkspace(ws) ==
    /\ phase = "loop"
    /\ FocusValid(Cur)
    /\ Becomes(move_focused_to_workspace(Cur, ws))

KeyMoveToWorkspace == \E ws \in WsKeys : MoveToWorkspace(ws)

\* Mod+Tab (shift = FALSE), Mod+Shift+Tab (shift = TRUE)
Tab(shift) ==
    /\ phase = "loop"
    /\ FocusValid(Cur)
    /\ Becomes(cycle_focus(IF cycling = 0 THEN start_cycle(Cur) ELSE Cur, ~shift))

KeyTab == \E shift \in BOOLEAN : Tab(shift)

\* Mod+t, Mod+Shift+t
ToggleMode(shift) ==
    /\ phase = "loop"
    /\ IF shift
       THEN Becomes(set_mode_for_all(Cur,
                IF tag_mode[0] = MODE_TILING THEN MODE_FLOATING ELSE MODE_TILING))
       ELSE Becomes(set_workspace_mode(Cur, current_workspace,
                IF tag_mode[current_workspace] = MODE_TILING
                THEN MODE_FLOATING ELSE MODE_TILING))

KeyToggleMode == \E shift \in BOOLEAN : ToggleMode(shift)

\* Mod+{h,j,k,l,arrows}
KeyFocusDirection ==
    /\ phase = "loop"
    /\ FocusValid(Cur)
    /\ \E dir \in 0..3 : Becomes(focus_in_direction(Cur, dir))

\* Mod+Shift+{h,j,k,l,arrows}: dir 0 left, 1 down, 2 up, 3 right
SwapDirection(dir) ==
    /\ phase = "loop"
    /\ FocusValid(Cur)
    /\ IF focused = NULL THEN Becomes(Cur)
       ELSE LET cand == find_neighbor_in_direction(Cur, focused, dir)
            IN  IF cand # NULL /\ cl[cand].workspace = current_workspace
                   /\ cl[cand].is_dock = 0
                THEN Becomes(swap_clients_keep_focus(Cur, focused, cand))
                ELSE Becomes(Cur)

KeySwapDirection == \E dir \in 0..3 : SwapDirection(dir)

\* Mod+Return, Mod+d: spawn_program
KeySpawn ==
    /\ phase = "loop"
    /\ Becomes(Cur)

\* Mod+f
KeyFullscreen ==
    /\ phase = "loop"
    /\ FocusValid(Cur)
    /\ Becomes(toggle_fullscreen(Cur, focused))

\* Mod+Shift+e: XCloseDisplay, exit.  The process is gone and its memory
\* with it; the windows stay as they are on the X server.
KeyQuit ==
    /\ phase = "loop"
    /\ Becomes([ Cur EXCEPT !.phase = "exited",
                            !.cl = [ a \in DOMAIN cl |-> ZeroClient ],
                            !.live = {}, !.clients = NULL, !.focused = NULL,
                            !.cycle_start = NULL, !.cycling = 0,
                            !.current_workspace = 0,
                            !.tag_mode = [ i \in Workspaces |-> MODE_FLOATING ],
                            !.reserved_top = 0, !.reserved_bottom = 0,
                            !.reserved_left = 0, !.reserved_right = 0 ])

\* Mod+digit
KeySwitchWorkspace ==
    /\ phase = "loop"
    /\ \E ws \in WsKeys : Becomes(switch_workspace(Cur, ws))

\* KeyRelease.  tab: the key released is Tab (otherwise it is another key,
\* such as the modifier itself); mod: the event's state holds MOD_MAIN or
\* Mod1, that is, a modifier was down just before the release.  The release
\* of the modifier key itself is KeyRelease(FALSE, TRUE).
KeyRelease(tab, mod) ==
    /\ phase = "loop"
    /\ IF mod /\ tab THEN Becomes(stop_cycle(Cur)) ELSE Becomes(Cur)

handle_keyrelease == \E tab \in BOOLEAN, mod \in BOOLEAN : KeyRelease(tab, mod)

\* PropertyNotify; relevant: the atom is _NET_WM_STRUT_PARTIAL or
\* _NET_WM_WINDOW_TYPE; p: the window's properties now
PropertyNotify(W, P) ==
    /\ phase = "loop"
    /\ \E w \in W, relevant \in BOOLEAN, p \in P :
          LET c == find_client(cl, clients, w)
          IN  IF c = NULL \/ cl[c].is_dock = 0 \/ ~relevant THEN Becomes(Cur)
              ELSE LET d == apply_dock_geometry(get_window_type_and_strut(cl[c], p),
                                ScreenW, ScreenH, reserved_top, reserved_bottom,
                                reserved_left, reserved_right)
                   IN  Becomes(update_borders(TileAllFrom(
                           update_global_struts([ Cur EXCEPT !.cl[c] = d ]), 0)))

handle_propertynotify == PropertyNotify(Win, WindowProps)

handle_keypress ==
    \/ KeyClose
    \/ KeyMoveToWorkspace
    \/ KeyTab
    \/ KeyToggleMode
    \/ KeyFocusDirection
    \/ KeySwapDirection
    \/ KeySpawn
    \/ KeyFullscreen
    \/ KeyQuit
    \/ KeySwitchWorkspace

\* a step that is not counted as an event of the session
Uncounted(A) == A /\ UNCHANGED << events, probe >>

\* a step that is not counted, after which p is what is remembered of it
Observed(A, p) == A /\ UNCHANGED events /\ probe' = p

\* one iteration of run_loop, in a session of at most MaxEvents events
Counted(A) == events < MaxEvents /\ events' = events + 1 /\ A /\ UNCHANGED probe

Next ==
    \/ Uncounted(ScanManage)
    \/ Uncounted(ScanSkip)
    \/ Uncounted(StartLoop)
    \/ Counted(handle_maprequest)
    \/ Counted(handle_destroynotify)
    \/ Counted(handle_unmapnotify)
    \/ Counted(handle_configurerequest)
    \/ Counted(handle_enternotify)
    \/ Counted(handle_motionnotify)
    \/ Counted(handle_buttonpress)
    \/ Counted(handle_keypress)
    \/ Counted(handle_keyrelease)
    \/ Counted(handle_clientmessage)
    \/ Counted(handle_propertynotify)

Spec == Init /\ [][Next]_vars

(***************************************************************************)
(* SpecPlain: sessions of any length with normal windows only, started on  *)
(* an empty screen: windows appear and go, the pointer enters them, the    *)
(* workspace is toggled between FLOATING and TILING and clients are        *)
(* swapped with their neighbours.                                          *)
(***************************************************************************)
\* the state run_loop starts in when the root window has no children
InitPlain ==
    /\ phase = "loop"
    /\ scan_next = 1
    /\ cl = [ a \in PlainAddr |-> ZeroClient ]
    /\ live = {}
    /\ clients = NULL
    /\ focused = NULL
    /\ cycle_start = NULL
    /\ current_workspace = 0
    /\ cycling = 0
    /\ tag_mode = [ i \in Workspaces |->
                      IF DEFAULT_TAG_MODE # 0 THEN MODE_TILING ELSE MODE_FLOATING ]
    /\ \E layout \in { LAYOUT_MASTER, LAYOUT_DWINDLE } :
          workspace_layout = [ i \in Workspaces |-> layout ]
    /\ reserved_top = 0
    /\ reserved_bottom = 0
    /\ reserved_left = 0
    /\ reserved_right = 0
    /\ mapped = {}
    /\ events = 0
    /\ tile_in = NoTileInput
    /\ tile_out = << >>
    /\ probe = NoProbe

PlainMapRequest == MapRequest(PlainWin, PlainProps, { << 400, 300 >> })

PlainDestroyNotify == DestroyNotify(PlainWin)

\* Mod+Shift+direction; the state it was pressed in is remembered
PlainSwapDirection ==
    \E dir \in 0..3 :
        Observed(SwapDirection(dir),
                 [ op |-> "swap_direction", dir |-> dir, was |-> Cur ])

NextPlain ==
    \/ Observed(PlainMapRequest, NoProbe)
    \/ Observed(PlainDestroyNotify, NoProbe)
    \/ Observed(handle_enternotify, NoProbe)
    \/ Observed(KeyToggleMode, NoProbe)
    \/ PlainSwapDirection

SpecPlain == InitPlain /\ [][NextPlain]_vars

(***************************************************************************)
(* SpecTile: tile_workspace as a function of the screen, the reserved      *)
(* margins, the layout and the number of clients on the workspace.         *)
(***************************************************************************)
InitTile ==
    /\ InitWM(LAYOUT_MASTER, Addr)
    /\ events = 0
    /\ tile_in \in TileInputs
    /\ tile_in.sw \in { sc[1] : sc \in { t \in TileScreens : t[2] = tile_in.sh } }
    /\ tile_out = << >>
    /\ probe = NoProbe

\* tile_workspace on a workspace of tile_in.count clients
TileStep ==
    /\ tile_out = << >>
    /\ tile_out' = TileRects(tile_in.count, tile_in.layout, tile_in.sw, tile_in.sh,
                             tile_in.rt, tile_in.rb, tile_in.rl, tile_in.rr)
    /\ UNCHANGED << wmvars, events, tile_in, probe >>

NextTile == TileStep

SpecTile == InitTile /\ [][NextTile]_vars

(***************************************************************************)
(* The X server's view of the windows: the stacking order (bottom to top), *)
(* each window's border and the window that has the input focus.  Only     *)
(* SpecRound follows it; it is kept in probe.x.                            *)
(***************************************************************************)
BORDER_PX_FOCUSED == 12

\* XRaiseWindow(w)
XRaise(stack, w) == SelectSeq(stack, LAMBDA v : v # w) \o << w >>

\* the first loop of update_borders over the registry clients reg
RECURSIVE BorderLoop(_, _, _)
BorderLoop(s, reg, xs) ==
    IF reg = << >> THEN xs
    ELSE
    LET c == s.cl[Head(reg)]
    IN  BorderLoop(s, Tail(reg),
            IF c.is_dock # 0 THEN xs
            ELSE IF c.workspace # s.current_workspace
            THEN [ xs EXCEPT !.border[c.win].width = 0 ]
            ELSE IF s.focused # NULL /\ Head(reg) = s.focused
            THEN [ xs EXCEPT !.border[c.win] =
                                 [ width |-> BORDER_PX_FOCUSED, colour |-> "focus" ],
                             !.stack = XRaise(xs.stack, c.win) ]
            ELSE [ xs EXCEPT !.border[c.win] =
                                 [ width |-> BORDER_PX_UNFOCUSED, colour |-> "unfocus" ] ])

\* restack_docks: every dock is raised, in list order
RECURSIVE DockLoop(_, _, _)
DockLoop(s, reg, xs) ==
    IF reg = << >> THEN xs
    ELSE DockLoop(s, Tail(reg),
             IF s.cl[Head(reg)].is_dock # 0
             THEN [ xs EXCEPT !.stack = XRaise(xs.stack, s.cl[Head(reg)].win) ]
             ELSE xs)

\* what update_borders does on the X server in the manager's state s
XBorders(s, xs) ==
    DockLoop(s, Registry(s.cl, s.clients), BorderLoop(s, Registry(s.cl, s.clients), xs))

\* a faulty focus that lowers the window when it is focused already
XFocusOrLower(s, xs, c) ==
    IF c = NULL THEN xs
    ELSE IF s.cl[c].workspace # s.current_workspace THEN xs
    ELSE IF s.focused # NULL /\ s.focused = c
    THEN [ xs EXCEPT !.stack = << s.cl[c].win >>
                                \o SelectSeq(xs.stack, LAMBDA v : v # s.cl[c].win) ]
    ELSE XBorders([ s EXCEPT !.focused = c ],
                  [ xs EXCEPT !.stack = XRaise(xs.stack, s.cl[c].win),
                              !.input = s.cl[c].win ])

\* what focus_client_proper(c) does on the X server in the manager's state s
XFocus(s, xs, c) ==
    IF c = NULL THEN xs
    ELSE IF s.cl[c].workspace # s.current_workspace THEN xs
    ELSE IF s.focused # NULL /\ s.focused = c THEN xs
    ELSE XBorders([ s EXCEPT !.focused = c ],
                  [ xs EXCEPT !.stack = XRaise(xs.stack, s.cl[c].win),
                              !.input = s.cl[c].win ])

\* what unmanage(w) does on the X server in the manager's state s: the
\* window is gone; when the focus is looked for again, update_borders and
\* then XRaiseWindow and XSetInputFocus on the new focused client
XUnmanage(s, xs, w, stale) ==
    LET c == find_client(s.cl, s.clients, w)
        gone == [ xs EXCEPT !.stack = SelectSeq(xs.stack, LAMBDA v : v # w) ]
    IN  IF c = NULL THEN xs
        ELSE
        LET m1 == remove_client_from_list(s.cl, c)
            h1 == HeadAfterRemove(s.cl, s.clients, c)
            fwin == IF s.focused \in (s.live \ {c}) \/ stale
                    THEN m1[s.focused].win ELSE 0
            s2 == unmanage(s, w, stale)
        IN  IF s.focused # NULL /\ find_client(m1, h1, fwin) = NULL
            THEN LET x1 == XBorders(s2, gone)
                 IN  IF s2.focused # NULL
                     THEN [ x1 EXCEPT !.stack = XRaise(x1.stack, s2.cl[s2.focused].win),
                                      !.input = s2.cl[s2.focused].win ]
                     ELSE x1
            ELSE gone

(***************************************************************************)
(* SpecRound: swap_clients, switch_workspace and focus_client_proper       *)
(* applied again to their own result.  The state they are applied to is    *)
(* the state of the manager after a session in which the windows 1..n were *)
(* mapped one after the other on workspace 0, some of them docks, some     *)
(* sent to workspace 1 with Mod+Shift+2 as soon as they were mapped, and   *)
(* the pointer then entered one of the windows left on workspace 0.        *)
(***************************************************************************)
\* the session maps 1..MaxRoundClients windows
MaxRoundClients == 4

\* what becomes of a window of the session
RoundKinds == { "stays", "sent", "dock" }

\* the state run_loop starts in when the root window has no children
EmptyLoop(heap, layout) ==
    [ phase |-> "loop", scan_next |-> 1, cl |-> [ a \in heap |-> ZeroClient ],
      live |-> {}, clients |-> NULL, focused |-> NULL, cycle_start |-> NULL,
      current_workspace |-> 0, cycling |-> 0,
      tag_mode |-> [ i \in Workspaces |->
                       IF DEFAULT_TAG_MODE # 0 THEN MODE_TILING ELSE MODE_FLOATING ],
      workspace_layout |-> [ i \in Workspaces |-> layout ],
      reserved_top |-> 0, reserved_bottom |-> 0, reserved_left |-> 0,
      reserved_right |-> 0, mapped |-> {} ]

\* MapRequest of window i, the record at address i, then Mod+Shift+2 if the
\* window is sent away; for i = from .. Len(kinds)
RECURSIVE SessionOf(_, _, _)
SessionOf(s, kinds, from) ==
    IF from > Len(kinds) THEN s
    ELSE
    LET s1 == manage(s, from, Prop(kinds[from] = "dock", 0, NoStrut), FALSE,
                     << 400, 300 >>, from)
        s2 == IF kinds[from] = "sent" THEN move_focused_to_workspace(s1, 1) ELSE s1
    IN  SessionOf(s2, kinds, from + 1)

\* the manager is in state s
Holds(s) ==
    /\ phase = s.phase
    /\ scan_next = s.scan_next
    /\ cl = s.cl
    /\ live = s.live
    /\ clients = s.clients
    /\ focused = s.focused
    /\ cycle_start = s.cycle_start
    /\ current_workspace = s.current_workspace
    /\ cycling = s.cycling
    /\ tag_mode = s.tag_mode
    /\ workspace_layout = s.workspace_layout
    /\ reserved_top = s.reserved_top
    /\ reserved_bottom = s.reserved_bottom
    /\ reserved_left = s.reserved_left
    /\ reserved_right = s.reserved_right
    /\ mapped = s.mapped

InitRound ==
    \E n \in 1..MaxRoundClients, layout \in { LAYOUT_MASTER, LAYOUT_DWINDLE } :
      \E kinds \in [ 1..n -> RoundKinds ] :
        LET s0 == SessionOf(EmptyLoop(1..MaxRoundClients, layout), kinds, 1)
            here == { i \in 1..n : kinds[i] = "stays" }
            x0 == [ stack |-> [ i \in 1..n |-> i ],
                    border |-> [ i \in 1..n |-> [ width |-> 0, colour |-> "unfocus" ] ],
                    input |-> 0 ]
        IN  /\ events = 0
            /\ tile_in = NoTileInput
            /\ tile_out = << >>
            /\ IF here = {}
               THEN /\ Holds(s0)
                    /\ probe = [ op |-> "none", x |-> XBorders(s0, x0) ]
               ELSE \E i \in here :
                    /\ Holds(make_priority(s0, i))
                    /\ probe = [ op |-> "none",
                                 x |-> XBorders(make_priority(s0, i),
                                           [ x0 EXCEPT !.stack = XRaise(x0.stack, i),
                                                       !.input = i ]) ]

\* swap_clients(a, b) on the manager's state
SwapIn(s, a, b) ==
    [ s EXCEPT !.cl = swap_clients(s.cl, a, b),
               !.clients = SwapHead(s.cl, s.clients, a, b) ]

\* swap_clients(a, b) for two clients of one workspace, then once more
SwapStep ==
    /\ UNCHANGED events
    /\ \/ /\ probe.op = "none"
          /\ \E a, b \in RegistrySet(cl, clients) :
                /\ a # b
                /\ cl[a].workspace = cl[b].workspace
                /\ Becomes(SwapIn(Cur, a, b))
                /\ probe' = [ op |-> "swap", n |-> 1, a |-> a, b |-> b,
                              was |-> [ cl |-> cl, clients |-> clients ] ]
       \/ /\ probe.op = "swap"
          /\ probe.n = 1
          /\ Becomes(SwapIn(Cur, probe.a, probe.b))
          /\ probe' = [ probe EXCEPT !.n = 2 ]

\* switch_workspace(a); switch_workspace(b); switch_workspace(a), the keys
\* Mod+digit pressed one after the other
SwitchStep ==
    /\ UNCHANGED events
    /\ \/ /\ probe.op = "none"
          /\ \E a, b \in WsKeys :
                /\ a # b
                /\ Becomes(switch_workspace(Cur, a))
                /\ probe' = [ op |-> "switch", n |-> 1, a |-> a, b |-> b,
                              first |-> [ focused |-> switch_workspace(Cur, a).focused,
                                          mapped |-> switch_workspace(Cur, a).mapped ] ]
       \/ /\ probe.op = "switch"
          /\ probe.n = 1
          /\ Becomes(switch_workspace(Cur, probe.b))
          /\ probe' = [ probe EXCEPT !.n = 2 ]
       \/ /\ probe.op = "switch"
          /\ probe.n = 2
          /\ Becomes(switch_workspace(Cur, probe.a))
          /\ probe' = [ probe EXCEPT !.n = 3 ]

\* focus_client_proper(c) for a non-dock client of the current workspace,
\* then once more
FocusStep ==
    /\ UNCHANGED events
    /\ \/ /\ probe.op = "none"
          /\ \E c \in RegistrySet(cl, clients) :
                /\ cl[c].is_dock = 0
                /\ cl[c].workspace = current_workspace
                /\ Becomes(focus_client_proper(Cur, c))
                /\ probe' = [ op |-> "focus", n |-> 1, c |-> c,
                              x |-> XFocus(Cur, probe.x, c),
                              first |-> [ focused |-> focus_client_proper(Cur, c).focused,
                                          x |-> XFocus(Cur, probe.x, c) ] ]
       \/ /\ probe.op = "focus"
          /\ probe.n = 1
          /\ Becomes(focus_client_proper(Cur, probe.c))
          /\ probe' = [ probe EXCEPT !.n = 2, !.x = XFocus(Cur, probe.x, probe.c) ]

\* DestroyNotify for a managed window
UnmanageStep ==
    /\ UNCHANGED events
    /\ probe.op = "none"
    /\ \E w \in 1..MaxRoundClients, stale \in BOOLEAN :
          /\ find_client(cl, clients, w) # NULL
          /\ Becomes(unmanage([ Cur EXCEPT !.mapped = mapped \ {w} ], w, stale))
          /\ probe' = [ op |-> "unmanage", c |-> find_client(cl, clients, w),
                        was |-> [ focused |-> focused ],
                        x |-> XUnmanage(Cur, probe.x, w, stale) ]

NextRound ==
    \/ SwapStep
    \/ SwitchStep
    \/ FocusStep
    \/ UnmanageStep

SpecRound == InitRound /\ [][NextRound]_vars

(***************************************************************************)
(* SpecKeys: sessions of any length on an empty screen in which normal     *)
(* windows and docks are mapped, the pointer enters windows, and the       *)
(* workspace keys (Mod+digit, Mod+Shift+digit) and the Alt-Tab keys are    *)
(* pressed and released.  Every workspace stays FLOATING.                  *)
(***************************************************************************)
\* the session has windows 1..MaxKeysWin, and as many client records
MaxKeysWin == 3

\* a normal window, and a window of type _NET_WM_WINDOW_TYPE_DOCK
KeysProps == { Prop(FALSE, 0, NoStrut), Prop(TRUE, 0, NoStrut) }

InitKeys ==
    /\ Holds(EmptyLoop(1..MaxKeysWin, LAYOUT_DWINDLE))
    /\ events = 0
    /\ tile_in = NoTileInput
    /\ tile_out = << >>
    /\ probe = NoProbe

KeysMapRequest ==
    /\ phase = "loop"
    /\ \E w \in 1..MaxKeysWin \ mapped, p \in KeysProps :
          Manage(Cur, w, p, FALSE, << 400, 300 >>)

NextKeys ==
    \/ Uncounted(KeysMapRequest)
    \/ Uncounted(handle_enternotify)
    \/ Uncounted(KeyMoveToWorkspace)
    \/ Uncounted(KeySwitchWorkspace)
    \/ Uncounted(KeyTab)
    \/ Uncounted(handle_keyrelease)

SpecKeys == InitKeys /\ [][NextKeys]_vars

(***************************************************************************)
(* SpecFiles: sessions of any length on an empty screen in which normal    *)
(* windows and docks are mapped and destroyed and the workspace keys are   *)
(* pressed; probe.occupied is the content of ~/.wm/occupied.workspace, a   *)
(* sequence of the strings written to it.                                  *)
(***************************************************************************)
\* what write_occupied_workspace_file prints for the workspaces w .. 8 and
\* the final newline; first: nothing has been printed yet
RECURSIVE write_occupied_workspace_file(_, _, _, _)
write_occupied_workspace_file(m, head, w, first) ==
    IF w >= MAX_WORKSPACES THEN << "\n" >>
    ELSE IF OnWorkspace(m, head, w) # << >>
    THEN (IF first THEN << >> ELSE << "," >>) \o << ToString(w + 1) >>
         \o write_occupied_workspace_file(m, head, w + 1, FALSE)
    ELSE write_occupied_workspace_file(m, head, w + 1, first)

\* a step of the session; wrote: the handler reached its call of
\* write_occupied_workspace_file, which prints the registry as it is then
\* (no handler changes a client's workspace or the registry after the call)
Filed(A, wrote) ==
    /\ A
    /\ UNCHANGED events
    /\ probe' = [ op |-> "file",
                  occupied |-> IF wrote
                               THEN write_occupied_workspace_file(cl', clients', 0, TRUE)
                               ELSE probe.occupied ]

\* main writes the file before run_loop
InitFiles ==
    /\ Holds(EmptyLoop(1..MaxKeysWin, LAYOUT_DWINDLE))
    /\ events = 0
    /\ tile_in = NoTileInput
    /\ tile_out = << >>
    /\ probe = [ op |-> "file",
                 occupied |-> write_occupied_workspace_file(
                                  [ a \in 1..MaxKeysWin |-> ZeroClient ], NULL, 0, TRUE) ]

NextFiles ==
    \/ Filed(MapRequest(1..MaxKeysWin, KeysProps, { << 400, 300 >> }), live' # live)
    \/ Filed(DestroyNotify(1..MaxKeysWin), live' # live)
    \/ Filed(KeySwitchWorkspace, current_workspace' # current_workspace)
    \/ Filed(KeyMoveToWorkspace, focused # NULL)

SpecFiles == InitFiles /\ [][NextFiles]_vars

(***************************************************************************)
(* SpecDock: a dock with any strut of DockProps and a normal window are    *)
(* mapped on an empty screen, in either order, and the mode is toggled.    *)
(***************************************************************************)
\* the 12 cardinals with size, start and end for one side (1 left, 2 right,
\* 3 top, 4 bottom) and the size other for the three other sides
StrutVals(side, size, start, end, other) ==
    [ i \in 1..12 |-> IF i = side THEN size
                      ELSE IF i <= 4 THEN other
                      ELSE IF i = 3 + 2 * side THEN start
                      ELSE IF i = 4 + 2 * side THEN end
                      ELSE 0 ]

\* docks (window type DOCK) with struts inside and beyond the screen
DockProps ==
    { Prop(TRUE, 12, StrutVals(side, size, start, end, other)) :
        side \in 1..4, size \in { 0, 30, 900, HugeCardinal },
        start \in { 0, 200, 1200 }, end \in { 0, 499, 999, 1500 },
        other \in { 0, 20 } }

InitDock ==
    /\ Holds(EmptyLoop(1..2, LAYOUT_DWINDLE))
    /\ events = 0
    /\ tile_in = NoTileInput
    /\ tile_out = << >>
    /\ probe = NoProbe

NextDock ==
    \/ Uncounted(MapRequest({1}, DockProps, { << 400, 300 >> }))
    \/ Uncounted(MapRequest({2}, PlainProps, { << 400, 300 >> }))
    \/ Uncounted(KeyToggleMode)

SpecDock == InitDock /\ [][NextDock]_vars

(***************************************************************************)
(* SpecStart: main() from XSelectInput on the root window, with or without *)
(* another window manager that holds SubstructureRedirect, the scan, and   *)
(* an event loop in which windows are mapped and destroyed and X errors    *)
(* arrive.  probe.other_wm: another manager is running; probe.stderr: the  *)
(* lines written to stderr.                                                *)
(***************************************************************************)
\* the X protocol error code of a request for an attribute another client
\* holds exclusively (X11/X.h)
BadAccess == 10

\* Xlib's XSelectInput queues a ChangeWindowAttributes request and returns
\* 1; an error the server answers with reaches the client through the
\* error handler
XSelectInput(other_wm) == 1

\* the longest stderr followed
MaxStderr == 3

\* xerror_handler: one line on stderr, returns 0
xerror_handler(log) == Append(log, "X error")

\* die(msg): the message on stderr, exit(EXIT_FAILURE)
die(s, log, msg) == << [ s EXCEPT !.phase = "fatal" ], Append(log, msg) >>

InitStart ==
    /\ Holds([ EmptyLoop(1..MaxWin, LAYOUT_DWINDLE) EXCEPT !.phase = "start" ])
    /\ events = 0
    /\ tile_in = NoTileInput
    /\ tile_out = << >>
    /\ \E other_wm \in BOOLEAN :
          probe = [ op |-> "start", other_wm |-> other_wm, stderr |-> << >> ]

\* main: XSelectInput on the root window and the test of its return value;
\* the server's BadAccess error, if any, is handled by xerror_handler
SelectInput ==
    /\ phase = "start"
    /\ LET log == IF probe.other_wm THEN xerror_handler(probe.stderr)
                  ELSE probe.stderr
           r == IF XSelectInput(probe.other_wm) = BadAccess
                THEN die(Cur, log, "wm: another window manager is running")
                ELSE << [ Cur EXCEPT !.phase = "scan" ], log >>
       IN  /\ Becomes(r[1])
           /\ probe' = [ probe EXCEPT !.stderr = r[2] ]
    /\ UNCHANGED events

\* an X error arrives while the manager scans or handles events
XError ==
    /\ phase \in { "scan", "loop" }
    /\ Len(probe.stderr) < MaxStderr
    /\ Becomes(Cur)
    /\ probe' = [ probe EXCEPT !.stderr = xerror_handler(@) ]
    /\ UNCHANGED events

NextStart ==
    \/ SelectInput
    \/ Uncounted(ScanManage)
    \/ Uncounted(ScanSkip)
    \/ Uncounted(StartLoop)
    \/ Uncounted(MapRequest(Win, PlainProps, { << 400, 300 >> }))
    \/ Uncounted(DestroyNotify(Win))
    \/ XError

SpecStart == InitStart /\ [][NextStart]_vars

(***************************************************************************)
(* SpecMove: sessions of any length on an empty screen in which normal     *)
(* windows are mapped, the pointer enters them, the mode is toggled and    *)
(* the workspace keys are pressed.                                         *)
(***************************************************************************)
InitMove ==
    /\ Holds(EmptyLoop(1..MaxWin, LAYOUT_DWINDLE))
    /\ events = 0
    /\ tile_in = NoTileInput
    /\ tile_out = << >>
    /\ probe = NoProbe

NextMove ==
    \/ Uncounted(MapRequest(Win, PlainProps, { << 400, 300 >> }))
    \/ Uncounted(handle_enternotify)
    \/ Uncounted(KeyToggleMode)
    \/ Uncounted(KeyMoveToWorkspace)
    \/ Uncounted(KeySwitchWorkspace)

SpecMove == InitMove /\ [][NextMove]_vars

(***************************************************************************)
(* SpecConfigure: windows 1 and 2 ask to be configured, before and after   *)
(* they are mapped, with requests that name all or some of the fields;     *)
(* window 1 may be a dock.  probe.xgeom is the geometry each window has in *)
(* the X server.  At most MaxEvents requests are followed.                 *)
(***************************************************************************)
\* the rectangles asked for: on the screen, and beyond it
CfgRects == { Rect(5, 7, 640, 480), Rect(-20, 900, 2000, 10) }

\* the value masks of the requests
CfgMasks == { { "x", "y", "w", "h" }, { "x", "y" }, { "w", "h" } }

\* window 1: a panel with a top strut, a dock without strut, a normal window
CfgProps ==
    { Prop(TRUE, 12, << 0, 0, 30, 0, 0, 0, 0, 0, 0, 999, 0, 0 >>),
      Prop(TRUE, 0, NoStrut),
      Prop(FALSE, 0, NoStrut) }

\* XConfigureWindow: the fields named in the mask take the requested value
XConfigureWindow(g, req, mask) ==
    Rect(IF "x" \in mask THEN req.x ELSE g.x,
         IF "y" \in mask THEN req.y ELSE g.y,
         IF "w" \in mask THEN req.w ELSE g.w,
         IF "h" \in mask THEN req.h ELSE g.h)

InitConfigure ==
    /\ Holds(EmptyLoop(1..2, LAYOUT_DWINDLE))
    /\ events = 0
    /\ tile_in = NoTileInput
    /\ tile_out = << >>
    /\ probe = [ op |-> "none", xgeom |-> [ w \in 1..2 |-> Rect(10, 20, 400, 300) ] ]

\* MapRequest for window w with the size it has in the X server; manage
\* ends with XMoveResizeWindow to the record's geometry
CfgMapRequest(w, P) ==
    /\ MapRequest({ w }, P, { << probe.xgeom[w].w, probe.xgeom[w].h >> })
    /\ UNCHANGED events
    /\ probe' = [ op |-> "map",
                  xgeom |-> IF live' # live /\ live \subseteq live'
                            THEN [ probe.xgeom EXCEPT ![w] = GeomOf(Cur', clients') ]
                            ELSE probe.xgeom ]

\* ConfigureRequest for window w: a dock's window is moved by
\* apply_dock_geometry (if the record is still a dock after the re-read),
\* any other window by XConfigureWindow
CfgConfigureRequest(w, p, req, mask) ==
    LET c == find_client(cl, clients, w)
        wa == XConfigureWindow(probe.xgeom[w], req, mask)
    IN  /\ phase = "loop"
        /\ events < MaxEvents
        /\ events' = events + 1
        /\ Becomes(configure_request(Cur, w, p, wa))
        /\ probe' = [ op |-> "configure", win |-> w,
                      dock |-> (c # NULL /\ cl[c].is_dock # 0),
                      xgeom |-> [ probe.xgeom EXCEPT ![w] =
                          IF c # NULL /\ cl[c].is_dock # 0
                          THEN (IF cl'[c].is_dock # 0 THEN GeomOf(Cur', c) ELSE @)
                          ELSE wa ] ]

NextConfigure ==
    \/ CfgMapRequest(1, CfgProps)
    \/ CfgMapRequest(2, PlainProps)
    \/ \E w \in 1..2, p \in CfgProps, req \in CfgRects, mask \in CfgMasks :
          CfgConfigureRequest(w, p, req, mask)

SpecConfigure == InitConfigure /\ [][NextConfigure]_vars

(***************************************************************************)
(* Properties                                                              *)
(***************************************************************************)
\* C1: whenever the event loop is about to read the next event, a non-null
\* `focused` refers to a client that is in the registry and whose workspace
\* equals current_workspace.
C1_FocusedOnCurrentWorkspace ==
    (phase = "loop" /\ focused # NULL) =>
        /\ focused \in RegistrySet(cl, clients)
        /\ cl[focused].workspace = current_workspace

\* the state after Mod+Shift+digit sent the focused client to another
\* workspace: it is still focused
C1_FocusedLeftBehind ==
    /\ phase = "loop"
    /\ focused \in RegistrySet(cl, clients)
    /\ cl[focused].is_dock = 0
    /\ cl[focused].workspace \in Workspaces \ { current_workspace }

\* C2: a dock client is never the focused client: `focused` is null or
\* refers to a client with is_dock == 0, whatever the registry holds.
C2_DockNeverFocused ==
    focused \in live => cl[focused].is_dock = 0

\* the state after Mod+Tab with a registry that holds only docks
C2_OnlyDocksOneFocused ==
    /\ phase = "loop"
    /\ focused \in RegistrySet(cl, clients)
    /\ \A a \in RegistrySet(cl, clients) : cl[a].is_dock = 1 /\ cl[a].workspace = -1

\* C3: the registry never contains two clients with the same window handle.
C3_NoDuplicateWindows ==
    \A a, b \in RegistrySet(cl, clients) : a # b => cl[a].win # cl[b].win

\* the state after a MapRequest for a window that is already managed
C3_ManagedTwice ==
    /\ phase = "loop"
    /\ \E a, b \in RegistrySet(cl, clients) :
          a # b /\ cl[a].win = cl[b].win /\ cl[a].is_dock = 0 /\ cl[b].is_dock = 0

C5_DockWorkspace ==
    \A a \in RegistrySet(cl, clients) :
        IF cl[a].is_dock # 0 THEN cl[a].workspace = -1
        ELSE cl[a].workspace >= 0 /\ cl[a].workspace < MAX_WORKSPACES

\* the state after a dock's properties were re-read and no longer make it a
\* dock
C5_FormerDock ==
    /\ phase = "loop"
    /\ focused = NULL
    /\ \E a \in RegistrySet(cl, clients) : cl[a].is_dock = 0 /\ cl[a].workspace = -1

\* the largest of a set of unsigned 32-bit values, 0 for the empty set
UMax(S) == IF S = {} THEN 0 ELSE CHOOSE v \in S : \A u \in S : ~ULess(v, u)

\* the strut sizes of one side over the docks of the registry
DockStruts(side) ==
    { DockStrut(cl[a], side) : a \in { d \in RegistrySet(cl, clients) : cl[d].is_dock # 0 } }

\* C6: whenever the event loop is about to read the next event, each
\* reserved margin equals the maximum of that side's strut size over the
\* dock clients of the registry, 0 when there is no dock.
C6_ReservedIsMaxStrut ==
    phase = "loop" =>
        /\ reserved_top = UMax(DockStruts("top"))
        /\ reserved_bottom = UMax(DockStruts("bottom"))
        /\ reserved_left = UMax(DockStruts("left"))
        /\ reserved_right = UMax(DockStruts("right"))

\* the state after a dock with a top strut of 4294967295 was managed
C6_HugeStrutIgnored ==
    /\ phase = "loop"
    /\ reserved_top = 0
    /\ \E a \in RegistrySet(cl, clients) :
          cl[a].is_dock = 1 /\ cl[a].strut_top = HugeCardinal

\* the available rectangle tile_workspace computes for the input t
TileAvail(t) ==
    [ x |-> OriginX(t.rl), y |-> OriginY(t.rt),
      w |-> AvailW(t.sw, t.rl, t.rr), h |-> AvailH(t.sh, t.rt, t.rb) ]

\* the cell of a placed client: its rectangle with the border around it
CellInside(r, av) ==
    /\ r.x >= av.x
    /\ r.y >= av.y
    /\ r.x + r.w + 2 * BorderB <= av.x + av.w
    /\ r.y + r.h + 2 * BorderB <= av.y + av.h

CellsOverlap(r, q) ==
    /\ r.x < q.x + q.w + 2 * BorderB
    /\ q.x < r.x + r.w + 2 * BorderB
    /\ r.y < q.y + q.h + 2 * BorderB
    /\ q.y < r.y + r.h + 2 * BorderB

\* C7: after tile_workspace on a workspace with n >= 1 clients, in both
\* layouts, every placed client's cell lies inside the available rectangle
\* and no two cells overlap.
C7_CellsInsideAndDisjoint ==
    tile_out # << >> =>
        /\ \A i \in 1..Len(tile_out) : CellInside(tile_out[i], TileAvail(tile_in))
        /\ \A i, j \in 1..Len(tile_out) :
              i # j => ~CellsOverlap(tile_out[i], tile_out[j])

\* six clients tiled in the DWINDLE layout on a 1000x800 screen without docks
C7_SixDwindle ==
    /\ tile_in = [ sw |-> 1000, sh |-> 800, rt |-> 0, rb |-> 0, rl |-> 0, rr |-> 0,
                   count |-> 6, layout |-> LAYOUT_DWINDLE ]
    /\ tile_out # << >>
    /\ ~CellInside(tile_out[6], TileAvail(tile_in))

\* C8: a single client on the workspace fills the available rectangle
\* exactly: x = origin_x, y = origin_y, w = avail_w - 2b, h = avail_h - 2b.
C8_SingleFillsAvail ==
    (tile_out # << >> /\ tile_in.count = 1) =>
        LET av == TileAvail(tile_in)
        IN  tile_out[1] = Rect(av.x, av.y, av.w - 2 * BorderB, av.h - 2 * BorderB)

\* one client tiled on a 2560x1440 screen without docks
C8_SingleOnWideScreen ==
    /\ tile_in = [ sw |-> 2560, sh |-> 1440, rt |-> 0, rb |-> 0, rl |-> 0, rr |-> 0,
                   count |-> 1, layout |-> LAYOUT_DWINDLE ]
    /\ tile_out # << >>
    /\ tile_out[1].w < TileAvail(tile_in).w - 2 * BorderB

\* C9: in the MASTER layout with n >= 2 clients the first client gets width
\* floor(avail_w * MASTER_FACTOR / 100) - 2b and the full available height,
\* and the last stack client's bottom edge with its border, y + h + 2b, is
\* origin_y + avail_h.
C9_MasterAndStackBottom ==
    (tile_out # << >> /\ tile_in.count >= 2 /\ tile_in.layout = LAYOUT_MASTER) =>
        LET av == TileAvail(tile_in)
            last == tile_out[Len(tile_out)]
        IN  /\ tile_out[1].w = (av.w * DEFAULT_MASTER_FACTOR) \div 100 - 2 * BorderB
            /\ tile_out[1].h = av.h - 2 * BorderB
            /\ last.y + last.h + 2 * BorderB = av.y + av.h

\* sixteen clients tiled in the MASTER layout on a 1000x800 screen without
\* docks: the last of the fifteen stack clients ends below the available
\* rectangle
C9_FifteenStacked ==
    /\ tile_in = [ sw |-> 1000, sh |-> 800, rt |-> 0, rb |-> 0, rl |-> 0, rr |-> 0,
                   count |-> 16, layout |-> LAYOUT_MASTER ]
    /\ tile_out # << >>
    /\ tile_out[16].y + tile_out[16].h + 2 * BorderB
          > TileAvail(tile_in).y + TileAvail(tile_in).h

\* two clients, MASTER layout, 1000x800 screen, no reserved margins
C10_Input ==
    [ sw |-> 1000, sh |-> 800, rt |-> 0, rb |-> 0, rl |-> 0, rr |-> 0,
      count |-> 2, layout |-> LAYOUT_MASTER ]

\* C10: on a 1000x800 screen with gap_outer = 24, gap_inner = 8, border = 12
\* and no reserved margins, tiling two clients in the MASTER layout places
\* the master at (36, 36, 532, 704) and the stack client at
\* (600, 36, 340, 704).
C10_TwoClientsMaster ==
    (tile_in = C10_Input /\ tile_out # << >>) =>
        tile_out = << Rect(36, 36, 532, 704), Rect(600, 36, 340, 704) >>

\* the two clients have been tiled
C10_TwoTiled ==
    /\ tile_in = C10_Input
    /\ Len(tile_out) = 2

\* C10 with the rectangles as the specification states them: master at
\* (36, 36, 552, 728), stack client at (620, 36, 336, 728).
C10_AsStated ==
    (tile_in = C10_Input /\ tile_out # << >>) =>
        tile_out = << Rect(36, 36, 552, 728), Rect(620, 36, 336, 728) >>

\* v clamped to [lo, hi]: raised to lo, then lowered to hi
ClampTo(v, lo, hi) ==
    LET v1 == IF v < lo THEN lo ELSE v
    IN  IF v1 > hi THEN hi ELSE v1

\* the origins C11 describes for n clients in the rectangle (x, y, w, h):
\* one client placed per level at the rectangle's origin, the split amount
\* floor(dim * MASTER_FACTOR / 100) clamped to [MIN_dim, dim - MIN_dim - gi],
\* the rest in the complement, which starts amount + gi further on and has
\* what is left of the split dimension; horiz alternates from level to level
RECURSIVE DwindleOrigins(_, _, _, _, _, _)
DwindleOrigins(n, x, y, w, h, horiz) ==
    IF n <= 1 THEN << << x, y >> >>
    ELSE IF horiz = 0
    THEN LET amount == ClampTo((w * DEFAULT_MASTER_FACTOR) \div 100,
                               MIN_WIN_W, w - MIN_WIN_W - gap_inner)
         IN  << << x, y >> >>
             \o DwindleOrigins(n - 1, x + amount + gap_inner, y,
                               w - amount - gap_inner, h, 1)
    ELSE LET amount == ClampTo((h * DEFAULT_MASTER_FACTOR) \div 100,
                               MIN_WIN_H, h - MIN_WIN_H - gap_inner)
         IN  << << x, y >> >>
             \o DwindleOrigins(n - 1, x, y + amount + gap_inner,
                               w, h - amount - gap_inner, 0)

\* C11: in the DWINDLE layout the clients are placed in registry order,
\* starting with a vertical split and alternating the orientation at each
\* level; at every level the placed client is at the origin of the current
\* rectangle and the rest are tiled in the complement, which starts
\* amount + inner_gap further along the split dimension, amount being
\* floor(dim * MASTER_FACTOR / 100) clamped to
\* [MIN_dim, dim - MIN_dim - inner_gap].
C11_DwindleLevels ==
    (tile_out # << >> /\ tile_in.count >= 2 /\ tile_in.layout = LAYOUT_DWINDLE) =>
        LET av == TileAvail(tile_in)
            at == DwindleOrigins(tile_in.count, av.x, av.y, av.w, av.h, 0)
        IN  \A i \in 1..Len(tile_out) : << tile_out[i].x, tile_out[i].y >> = at[i]

\* ten clients tiled in the DWINDLE layout on a 1000x800 screen without
\* docks: the ninth level splits a rectangle 32 wide, where the interval
\* [32, 32 - 32 - 8] is empty and the amount is 1, and the tenth client is
\* placed 1 + 8 to the right of the ninth
C11_NinthLevel ==
    /\ tile_in = [ sw |-> 1000, sh |-> 800, rt |-> 0, rb |-> 0, rl |-> 0, rr |-> 0,
                   count |-> 10, layout |-> LAYOUT_DWINDLE ]
    /\ Len(tile_out) = 10
    /\ tile_out[10].x = tile_out[9].x + 1 + gap_inner

\* C12: for any two distinct clients a and b on the same workspace, adjacent
\* in either order or not, either one the head or neither, swap_clients(a, b)
\* followed by swap_clients(a, b) leaves every prev and next link and the
\* head pointer as they were.
C12_SwapTwiceRestores ==
    (probe.op = "swap" /\ probe.n = 2) =>
        /\ cl = probe.was.cl
        /\ clients = probe.was.clients

\* the second and the fourth of four clients, which are not adjacent and
\* neither of which is the head, have been swapped twice
C12_InnerPairSwappedTwice ==
    /\ probe.op = "swap"
    /\ probe.n = 2
    /\ Registry(cl, clients) = << 4, 3, 2, 1 >>
    /\ probe.a = 3
    /\ probe.b = 1

\* C13: for distinct workspaces a and b, after switch_workspace(a);
\* switch_workspace(b); switch_workspace(a) with no event in between the
\* focused client and the set of mapped windows are those that held after
\* the first switch_workspace(a), whichever client of workspace a was
\* focused then.
C13_SwitchRoundTrip ==
    (probe.op = "switch" /\ probe.n = 3) =>
        /\ focused = probe.first.focused
        /\ mapped = probe.first.mapped

\* the round trip 0, 1, 0 started on workspace 0 with the focus on a client
\* that is not the first client of workspace 0 in the registry
C13_FocusWasNotFirst ==
    /\ probe.op = "switch"
    /\ probe.n = 3
    /\ probe.a = 0
    /\ probe.first.focused # NULL
    /\ probe.first.focused \in RegistrySet(cl, clients)
    /\ cl[probe.first.focused].workspace = 0
    /\ probe.first.focused # FirstOnWorkspace(cl, clients, 0)
    /\ focused = FirstOnWorkspace(cl, clients, 0)

\* C14: for a non-dock client x of the current workspace,
\* focus_client_proper(x) followed by focus_client_proper(x) leaves the
\* focus, the stacking order, the borders and the input focus as one
\* focus_client_proper(x) does.
C14_FocusTwice ==
    (probe.op = "focus" /\ probe.n = 2) =>
        /\ focused = probe.first.focused
        /\ probe.x = probe.first.x

\* a client that was not focused has been focused twice, with another
\* window and a dock on the screen
C14_FocusedTwice ==
    /\ probe.op = "focus"
    /\ probe.n = 2
    /\ focused = probe.c
    /\ probe.x.input = cl[probe.c].win
    /\ probe.x.stack[1] # cl[probe.c].win
    /\ \E d \in RegistrySet(cl, clients) :
          cl[d].is_dock = 1 /\ probe.x.stack[Len(probe.x.stack)] = cl[d].win
    /\ \E o \in RegistrySet(cl, clients) :
          /\ o # probe.c
          /\ cl[o].is_dock = 0
          /\ cl[o].workspace = current_workspace


\* C15: when the focused client of the current workspace is moved to another
\* workspace (Mod+Shift+digit), its window is unmapped and the focus falls
\* back to the first remaining client of the current workspace (or none).
C15_MoveFocusFallsBack ==
    [][ \A ws \in WsKeys :
          ( /\ MoveToWorkspace(ws)
            /\ focused # NULL
            /\ focused \in RegistrySet(cl, clients)
            /\ cl[focused].is_dock = 0
            /\ cl[focused].workspace = current_workspace
            /\ ws # current_workspace )
          => ( /\ cl[focused].win \notin mapped'
               /\ focused' = FirstOnWorkspace(cl', clients', current_workspace') ) ]_vars

\* two clients on workspace 0, one of them focused, then moved to workspace 1:
\* it is still the focused client, unmapped, while the other one is shown
C15_MovedClientKeepsFocus ==
    /\ phase = "loop"
    /\ current_workspace = 0
    /\ focused # NULL
    /\ focused \in RegistrySet(cl, clients)
    /\ cl[focused].is_dock = 0
    /\ cl[focused].workspace = 1
    /\ cl[focused].win \notin mapped
    /\ FirstOnWorkspace(cl, clients, 0) # NULL
    /\ cl[FirstOnWorkspace(cl, clients, 0)].win \in mapped
    /\ cl[FirstOnWorkspace(cl, clients, 0)].win # cl[focused].win

\* the master cell and the stack cell of two clients tiled in state s
TwoCells(s) ==
    TileRects(2, LAYOUT_MASTER, ScreenW, ScreenH, s.reserved_top,
              s.reserved_bottom, s.reserved_left, s.reserved_right)

\* the situation of C16 in state s: the current workspace is tiled in the
\* MASTER layout and holds two clients, the first in the master cell (left),
\* the second in the stack cell (right), and the first is focused
C16_Situation(s) ==
    LET on == OnWorkspace(s.cl, s.clients, s.current_workspace)
    IN  /\ s.phase = "loop"
        /\ s.tag_mode[s.current_workspace] = MODE_TILING
        /\ s.workspace_layout[s.current_workspace] = LAYOUT_MASTER
        /\ Len(on) = 2
        /\ s.focused = on[1]
        /\ GeomOf(s, on[1]) = TwoCells(s)[1]
        /\ GeomOf(s, on[2]) = TwoCells(s)[2]
        /\ TwoCells(s)[1].x < TwoCells(s)[2].x

\* C16: with two clients A (left, master) and B (right, stack) tiled in the
\* MASTER layout on the current workspace and the focus on A, Shift+RIGHT
\* selects B as the neighbour, puts B before A in the registry, retiles so
\* that B has the master cell and A the stack cell, and leaves the focus on A.
C16_SwapRight ==
    ( /\ probe.op = "swap_direction"
      /\ probe.dir = 3
      /\ C16_Situation(probe.was) )
    => LET on == OnWorkspace(probe.was.cl, probe.was.clients,
                             probe.was.current_workspace)
           A == on[1]
           B == on[2]
       IN  /\ find_neighbor_in_direction(probe.was, A, 3) = B
           /\ OnWorkspace(cl, clients, current_workspace) = << B, A >>
           /\ GeomOf(Cur, B) = TwoCells(Cur)[1]
           /\ GeomOf(Cur, A) = TwoCells(Cur)[2]
           /\ focused = A

\* Shift+RIGHT has just been pressed in the situation of C16
C16_SwappedRight ==
    /\ probe.op = "swap_direction"
    /\ probe.dir = 3
    /\ C16_Situation(probe.was)

\* the registry after client a, wrapped round, ending with a itself
AfterInRegistry(m, head, a) ==
    LET reg == Registry(m, head)
        i == IndexOf(reg, a)
    IN  SubSeq(reg, i + 1, Len(reg)) \o SubSeq(reg, 1, i)

\* the clients Alt-Tab may land on: on workspace ws and not docks
TabTargets(m, q, ws) ==
    SelectSeq(q, LAMBDA a : m[a].workspace = ws /\ m[a].is_dock = 0)

\* C17: a Tab press (Mod+Tab) moves the focus to the next client after the
\* focused one in registry order that is on the current workspace, skipping
\* clients of other workspaces and docks, wrapping from the last one to the
\* first.
C17_TabForward ==
    [][ ( /\ Tab(FALSE)
          /\ focused # NULL
          /\ focused \in RegistrySet(cl, clients)
          /\ TabTargets(cl, Registry(cl, clients), current_workspace) # << >> )
        => ( /\ phase' = "loop"
             /\ cycling' = 1
             /\ focused' = TabTargets(cl, AfterInRegistry(cl, clients, focused),
                                      current_workspace)[1] ) ]_vars

\* C17 as long as no dock has been given a workspace
C17_TabForwardDocksApart ==
    [][ ( /\ Tab(FALSE)
          /\ focused # NULL
          /\ focused \in RegistrySet(cl, clients)
          /\ TabTargets(cl, Registry(cl, clients), current_workspace) # << >>
          /\ \A a \in RegistrySet(cl, clients) :
                cl[a].is_dock # 0 => cl[a].workspace = -1 )
        => ( /\ phase' = "loop"
             /\ cycling' = 1
             /\ focused' = TabTargets(cl, AfterInRegistry(cl, clients, focused),
                                      current_workspace)[1] ) ]_vars

\* the cycle has landed on a dock while a normal client is on the workspace
C17_CycleOnDock ==
    /\ phase = "loop"
    /\ cycling = 1
    /\ focused # NULL
    /\ focused \in RegistrySet(cl, clients)
    /\ cl[focused].is_dock # 0
    /\ cl[focused].workspace = current_workspace
    /\ cycle_start # focused
    /\ TabTargets(cl, Registry(cl, clients), current_workspace) # << >>

Reverse(q) == [ k \in 1..Len(q) |-> q[Len(q) + 1 - k] ]

\* the registry before client a, backwards and wrapped round, ending with a
BeforeInRegistry(m, head, a) ==
    LET reg == Registry(m, head)
        i == IndexOf(reg, a)
    IN  Reverse(SubSeq(reg, i + 1, Len(reg)) \o SubSeq(reg, 1, i - 1)) \o << a >>

\* the clients of q that are on workspace ws
OnWs(m, q, ws) == SelectSeq(q, LAMBDA a : m[a].workspace = ws)

\* C18: a Tab press with Shift held (Mod+Shift+Tab) moves the focus to the
\* previous client before the focused one in registry order that is on the
\* current workspace, wrapping from the first one to the last.
C18_TabBackward ==
    [][ ( /\ Tab(TRUE)
          /\ focused # NULL
          /\ focused \in RegistrySet(cl, clients)
          /\ OnWs(cl, Registry(cl, clients), current_workspace) # << >> )
        => ( /\ phase' = "loop"
             /\ cycling' = 1
             /\ focused' = OnWs(cl, BeforeInRegistry(cl, clients, focused),
                                current_workspace)[1] ) ]_vars

\* C18 without the wrap: when a client of the current workspace precedes
\* the focused one, the nearest such client gets the focus
C18_TabBackwardInside ==
    [][ ( /\ Tab(TRUE)
          /\ focused # NULL
          /\ focused \in RegistrySet(cl, clients)
          /\ OnWs(cl, SubSeq(Registry(cl, clients), 1,
                              IndexOf(Registry(cl, clients), focused) - 1),
                   current_workspace) # << >> )
        => ( /\ phase' = "loop"
             /\ cycling' = 1
             /\ focused' = OnWs(cl, BeforeInRegistry(cl, clients, focused),
                                current_workspace)[1] ) ]_vars

\* Mod+Shift+Tab never returned: cycle_focus loops for ever
C18_BackwardNeverEnds == phase = "hung"

\* C19: an Alt-Tab cycle ends when the modifier is released, whether Tab is
\* still down or not: after the KeyRelease of the modifier key (a key other
\* than Tab, reported with the modifier bit still set) cycling is false,
\* cycle_start is null and the focus is where the cycle left it.
C19_ModifierReleaseEndsCycle ==
    [][ KeyRelease(FALSE, TRUE)
        => ( /\ cycling' = 0
             /\ cycle_start' = NULL
             /\ focused' = focused ) ]_vars

\* C19 for the other order: Tab is released while the modifier is down
C19_TabReleasedFirst ==
    [][ KeyRelease(TRUE, TRUE)
        => ( /\ cycling' = 0
             /\ cycle_start' = NULL
             /\ focused' = focused ) ]_vars

\* a cycle that has moved the focus is in progress: the state in which the
\* modifier is released before Tab, and the state after that release
C19_CycleInProgress ==
    /\ phase = "loop"
    /\ cycling = 1
    /\ focused # NULL
    /\ focused # cycle_start

\* C20: when a client is unmanaged (its record leaves the registry and is
\* freed, after a DestroyNotify or a WM_DELETE_WINDOW ClientMessage), then
\* if it was the focused client the focus moves to the first remaining
\* client of the current workspace in registry order, or to null if there
\* is none, and otherwise the focus is unchanged.
C20_UnmanageFocus ==
    [][ \A c \in RegistrySet(cl, clients) :
          ( /\ phase = "loop"
            /\ phase' = "loop"
            /\ c \in live
            /\ c \notin live' )
          => ( /\ c \notin RegistrySet(cl', clients')
               /\ IF focused = c
                  THEN focused' = FirstOnWorkspace(cl', clients', current_workspace')
                  ELSE focused' = focused ) ]_vars

\* C20 as long as no window is managed twice
C20_UnmanageFocusNoDuplicates ==
    [][ \A c \in RegistrySet(cl, clients) :
          ( /\ phase = "loop"
            /\ phase' = "loop"
            /\ c \in live
            /\ c \notin live'
            /\ FocusValid(Cur)
            /\ \A a, b \in RegistrySet(cl, clients) :
                  cl[a].win = cl[b].win => a = b )
          => ( /\ c \notin RegistrySet(cl', clients')
               /\ IF focused = c
                  THEN focused' = FirstOnWorkspace(cl', clients', current_workspace')
                  ELSE focused' = focused ) ]_vars

\* the focused client was unmanaged and `focused` still points to its
\* freed record
C20_FocusOnFreedRecord ==
    /\ phase = "loop"
    /\ focused # NULL
    /\ focused \notin live

\* in the stacking order every window of a dock is above every window of a
\* client that is not a dock
DocksOnTop(stack) ==
    \A i, j \in 1..Len(stack) :
        LET a == find_client(cl, clients, stack[i])
            b == find_client(cl, clients, stack[j])
        IN  (a # NULL /\ b # NULL /\ cl[a].is_dock # 0 /\ cl[b].is_dock = 0) => i > j

\* C21: after every focus transition (here: the session's manage and
\* make_priority calls, focus_client_proper, unmanage) every dock window is
\* stacked above every non-dock window.
C21_DocksOnTop ==
    probe.op \in { "none", "focus", "unmanage" } => DocksOnTop(probe.x.stack)

\* C21 for the transitions other than unmanage
C21_DocksOnTopAfterFocus ==
    probe.op \in { "none", "focus" } => DocksOnTop(probe.x.stack)

\* the focused client was unmanaged, the focus fell back to another client,
\* and a dock is on the screen
C21_FocusedUnmanagedWithDock ==
    /\ probe.op = "unmanage"
    /\ probe.was.focused = probe.c
    /\ focused # NULL
    /\ \E a \in RegistrySet(cl, clients) : cl[a].is_dock # 0

\* the members of the set of integers S in ascending order, separated by
\* commas, each as its decimal numeral
RECURSIVE AscendingList(_)
AscendingList(S) ==
    IF S = {} THEN << >>
    ELSE LET lo == CHOOSE v \in S : \A u \in S : v <= u
         IN  << ToString(lo) >>
             \o (IF S = {lo} THEN << >> ELSE << "," >> \o AscendingList(S \ {lo}))

\* C22: whenever the event loop is about to read the next event, the content
\* of the occupied.workspace file is the line of the 1-based indices, in
\* ascending order and separated by commas, of the workspaces that hold at
\* least one non-dock client.
C22_OccupiedFile ==
    (phase = "loop" /\ probe.op = "file") =>
        probe.occupied =
            AscendingList({ w + 1 : w \in { v \in Workspaces :
                                \E a \in RegistrySet(cl, clients) :
                                    cl[a].is_dock = 0 /\ cl[a].workspace = v } })
            \o << "\n" >>

\* the file lists a workspace that holds a dock and no other client
C22_DockListed ==
    /\ phase = "loop"
    /\ probe.op = "file"
    /\ \E d \in RegistrySet(cl, clients) :
          /\ cl[d].is_dock # 0
          /\ cl[d].workspace >= 0
          /\ \A a \in RegistrySet(cl, clients) :
                cl[a].workspace = cl[d].workspace => cl[a].is_dock # 0
          /\ \E i \in 1..Len(probe.occupied) :
                probe.occupied[i] = ToString(cl[d].workspace + 1)

\* C22 as long as no dock has been given a workspace
C22_OccupiedFileDocksApart ==
    ( /\ phase = "loop"
      /\ probe.op = "file"
      /\ \A a \in RegistrySet(cl, clients) : cl[a].is_dock # 0 => cl[a].workspace = -1 )
    => probe.occupied =
           AscendingList({ w + 1 : w \in { v \in Workspaces :
                               \E a \in RegistrySet(cl, clients) :
                                   cl[a].is_dock = 0 /\ cl[a].workspace = v } })
           \o << "\n" >>

\* C23: a window managed while its _NET_WM_STRUT_PARTIAL property carries
\* the four primary strut sizes (4 cardinals or all 12), at least one of
\* them non-zero, becomes a dock (is_dock set, workspace -1); a window whose
\* four sizes are all zero and that has no DOCK window type does not.
C23_StrutMakesDock ==
    [][ \A w \in Win, p \in WindowProps, override \in BOOLEAN, size \in WinSizes :
          ( /\ live' # live
            /\ live \subseteq live'
            /\ Manage(Cur, w, p, override, size) )
          => IF p.nitems >= 4
                /\ (p.vals[1] # 0 \/ p.vals[2] # 0 \/ p.vals[3] # 0 \/ p.vals[4] # 0)
             THEN cl'[clients'].is_dock = 1 /\ cl'[clients'].workspace = -1
             ELSE p.dock_type \/ cl'[clients'].is_dock = 0 ]_vars

\* C23 for properties of 12 cardinals or none
C23_FullStrutMakesDock ==
    [][ \A w \in Win, p \in WindowProps, override \in BOOLEAN, size \in WinSizes :
          ( /\ live' # live
            /\ live \subseteq live'
            /\ p.nitems \notin 4..11
            /\ Manage(Cur, w, p, override, size) )
          => IF p.nitems >= 4
                /\ (p.vals[1] # 0 \/ p.vals[2] # 0 \/ p.vals[3] # 0 \/ p.vals[4] # 0)
             THEN cl'[clients'].is_dock = 1 /\ cl'[clients'].workspace = -1
             ELSE p.dock_type \/ cl'[clients'].is_dock = 0 ]_vars

\* a managed window with a non-zero primary strut that is not a dock
C23_StrutOnNormalClient ==
    \E a \in RegistrySet(cl, clients) :
        /\ a \in live
        /\ cl[a].is_dock = 0
        /\ cl[a].workspace >= 0
        /\ (cl[a].strut_left # 0 \/ cl[a].strut_right # 0
             \/ cl[a].strut_top # 0 \/ cl[a].strut_bottom # 0)

\* the docks of the registry with a top strut t > 0 and partial
\* coordinates top_start_x < top_end_x (unsigned values)
TopDocks ==
    { a \in RegistrySet(cl, clients) :
        /\ cl[a].is_dock # 0
        /\ cl[a].strut_top # 0
        /\ ULess(cl[a].strut_top_start_x, cl[a].strut_top_end_x) }

\* the top strut of dock a lies on the screen
TopStrutOnScreen(a) ==
    /\ 0 < cl[a].strut_top
    /\ cl[a].strut_top <= ScreenH
    /\ 0 <= cl[a].strut_top_start_x
    /\ cl[a].strut_top_end_x < ScreenW

\* the example of C24: the dock with strut_top = 30 from 0 to 999 (and no
\* other strut) is at
\* (0, 0, 1000, 30), reserved_top is 30, and one client tiled after the
\* dock was managed is at y = 66 with height 698 - 2b
TopPanelExample ==
    \A a \in RegistrySet(cl, clients) :
        ( /\ cl[a].is_dock # 0
          /\ cl[a].strut_top = 30
          /\ cl[a].strut_top_start_x = 0
          /\ cl[a].strut_top_end_x = 999
          /\ cl[a].strut_left = 0
          /\ cl[a].strut_right = 0
          /\ cl[a].strut_bottom = 0 )
        => /\ GeomOf(Cur, a) = Rect(0, 0, 1000, 30)
           /\ reserved_top = 30
           /\ \A c \in RegistrySet(cl, clients) :
                 ( /\ cl[c].is_dock = 0
                   /\ tag_mode[current_workspace] = MODE_TILING
                   /\ OnWorkspace(cl, clients, current_workspace) = << c >>
                   /\ clients = c )
                 => cl[c].y = 66 /\ cl[c].h = 698 - 2 * BorderB

C25_OtherManagerIsFatal ==
    /\ probe.other_wm =>
          /\ phase \in { "start", "fatal" }
          /\ phase = "fatal" =>
                probe.stderr[Len(probe.stderr)]
                  = "wm: another window manager is running"
    /\ (~probe.other_wm) => phase # "fatal"

\* every X error is logged and the manager goes on as before
C25_ErrorsAreLogged ==
    [][ XError => /\ probe'.stderr = Append(probe.stderr, "X error")
                  /\ UNCHANGED wmvars ]_vars

\* the event loop runs beside another window manager
C25_LoopBesideOtherManager ==
    /\ probe.other_wm
    /\ phase = "loop"
    /\ clients # NULL


\* C26: every event handler returns (the drag and resize pumps apart), so
\* the event loop always reaches its next blocking read: no handler, and
\* cycle_focus in particular, runs for ever, whatever the registry holds.
C26_HandlersReturn == phase # "hung"

\* a handler that starts with the registry's head on the current workspace
\* (or with an empty registry) returns
C26_HandlersReturnHeadOnWorkspace ==
    [][ ( /\ phase = "loop"
          /\ clients # NULL => cl[clients].workspace = current_workspace )
        => phase' # "hung" ]_vars

\* cycle_focus never returned: the registry's head is a dock, or a client
\* of another workspace
C26_CycleFocusRunsForEver ==
    /\ phase = "hung"
    /\ clients # NULL
    /\ cl[clients].workspace # current_workspace


\* the reserved margins
Margins == << reserved_top, reserved_bottom, reserved_left, reserved_right >>

\* in state s the clients of every TILING workspace have the geometry of
\* the layout computed from the reserved margins of s
LaidOut(s) ==
    \A ws \in Workspaces :
        s.tag_mode[ws] = MODE_TILING =>
        \A a \in RegistrySet(s.cl, s.clients) :
            GeomOf(tile_workspace(s, ws), a) = GeomOf(s, a)

\* the same for workspace ws alone
LaidOutOn(s, ws) ==
    (ws \in Workspaces /\ s.tag_mode[ws] = MODE_TILING) =>
    \A a \in RegistrySet(s.cl, s.clients) :
        GeomOf(tile_workspace(s, ws), a) = GeomOf(s, a)

\* C27: whenever a handler changes the reserved margins (a dock is
\* managed, unmanaged or changes its struts), at the next event read the
\* clients of every TILING workspace have the geometry of the layout
\* computed from the new margins.
C27_MarginsChangeRetiles ==
    [][ (phase = "loop" /\ phase' = "loop" /\ Margins' # Margins)
        => LaidOut(Cur') ]_vars

\* the same for PropertyNotify alone: a dock changes its struts
C27_PropertyNotifyRetiles ==
    [][ (phase = "loop" /\ Margins' # Margins /\ handle_propertynotify)
        => LaidOut(Cur') ]_vars

\* a dock reserves a margin and a TILING workspace has a client whose
\* geometry is not the one of the layout for it
C27_StaleLayoutBesideDock ==
    /\ phase = "loop"
    /\ Margins # << 0, 0, 0, 0 >>
    /\ \E a \in RegistrySet(cl, clients) :
          /\ cl[a].is_dock = 0
          /\ cl[a].workspace \in Workspaces
          /\ tag_mode[cl[a].workspace] = MODE_TILING
          /\ GeomOf(tile_workspace(Cur, cl[a].workspace), a) # GeomOf(Cur, a)


\* C28: after move_focused_to_workspace(ws) the workspace the focused
\* client was on and workspace ws, where in TILING mode, are laid out
\* afresh, also when the client was not on the current workspace.
C28_MoveRetilesSourceAndTarget ==
    [][ \A ws \in WsKeys :
          ( /\ phase = "loop"
            /\ focused # NULL
            /\ focused \in live
            /\ MoveToWorkspace(ws) )
          => /\ LaidOutOn(Cur', cl[focused].workspace)
             /\ LaidOutOn(Cur', ws) ]_vars

\* the same for a focused client on the current workspace
C28_MoveRetilesCurrentAndTarget ==
    [][ \A ws \in WsKeys :
          ( /\ phase = "loop"
            /\ focused # NULL
            /\ focused \in live
            /\ cl[focused].workspace = current_workspace
            /\ MoveToWorkspace(ws) )
          => /\ LaidOutOn(Cur', cl[focused].workspace)
             /\ LaidOutOn(Cur', ws) ]_vars

\* no window is managed twice, and a TILING workspace other than the
\* current one holds a client whose geometry is not the one of its layout
C28_SourceNotRetiled ==
    /\ phase = "loop"
    /\ \A a, b \in RegistrySet(cl, clients) : cl[a].win = cl[b].win => a = b
    /\ \E a \in RegistrySet(cl, clients) :
          /\ cl[a].workspace \in Workspaces \ { current_workspace }
          /\ tag_mode[cl[a].workspace] = MODE_TILING
          /\ GeomOf(tile_workspace(Cur, cl[a].workspace), a) # GeomOf(Cur, a)


\* the step changes the geometry of a client that is no dock and stays on
\* a workspace in FLOATING mode
FloatingMoved ==
    \E a \in live \cap live' :
        /\ << cl'[a].x, cl'[a].y, cl'[a].w, cl'[a].h >>
             # << cl[a].x, cl[a].y, cl[a].w, cl[a].h >>
        /\ cl[a].is_dock = 0
        /\ cl[a].workspace \in Workspaces
        /\ cl'[a].workspace = cl[a].workspace
        /\ tag_mode[cl[a].workspace] = MODE_FLOATING
        /\ a \in RegistrySet(cl, clients)
        /\ a \in RegistrySet(cl', clients')

\* C29: manage, unmanage, switch_workspace, move_focused_to_workspace, a
\* swap and a dock's PropertyNotify leave the geometry of the clients that
\* are on a workspace in FLOATING mode as it is: no step that changes it
\* is a step of one of these handlers.
C29_FloatingUntouched ==
    [][ (phase = "loop" /\ FloatingMoved)
        => ~ ( \/ handle_maprequest
               \/ handle_destroynotify
               \/ KeySwitchWorkspace
               \/ KeyMoveToWorkspace
               \/ KeySwapDirection
               \/ handle_propertynotify ) ]_vars

\* a workspace in FLOATING mode holds a client beside a dock with a strut
\* while a client was managed on, or moved to, the current workspace, which
\* is in TILING mode and laid out
C29_FloatingBesideTiling ==
    /\ phase = "loop"
    /\ Margins # << 0, 0, 0, 0 >>
    /\ tag_mode[current_workspace] = MODE_TILING
    /\ \E a, b \in RegistrySet(cl, clients) :
          /\ cl[a].is_dock = 0
          /\ cl[a].workspace \in Workspaces
          /\ tag_mode[cl[a].workspace] = MODE_FLOATING
          /\ cl[b].is_dock = 0
          /\ cl[b].workspace = current_workspace
          /\ GeomOf(tile_workspace(Cur, current_workspace), b) = GeomOf(Cur, b)


\* the step changes the geometry of a dock
DockMoved ==
    \E a \in live \cap live' :
        /\ << cl'[a].x, cl'[a].y, cl'[a].w, cl'[a].h >>
             # << cl[a].x, cl[a].y, cl[a].w, cl[a].h >>
        /\ cl[a].is_dock # 0

\* the step changes the geometry of a client that is no dock and is on a
\* workspace in TILING mode
TiledMoved ==
    \E a \in live \cap live' :
        /\ << cl'[a].x, cl'[a].y, cl'[a].w, cl'[a].h >>
             # << cl[a].x, cl[a].y, cl[a].w, cl[a].h >>
        /\ cl[a].is_dock = 0
        /\ cl[a].workspace \in Workspaces
        /\ tag_mode[cl[a].workspace] = MODE_TILING

\* C30: a ButtonPress, with the drag-move or drag-resize it starts, changes
\* the geometry of a client only if the client is no dock and is on a
\* workspace in FLOATING mode: no step that changes the geometry of a dock
\* or of a client of a TILING workspace is a step of handle_buttonpress.
C30_DragOnlyFloating ==
    [][ (phase = "loop" /\ (DockMoved \/ TiledMoved)) => ~handle_buttonpress ]_vars

\* the same for docks alone
C30_DockNeverDragged ==
    [][ (phase = "loop" /\ DockMoved) => ~handle_buttonpress ]_vars

\* a client of a workspace in TILING mode is where a drag-move has put it:
\* off its place in the layout by the pointer's motion
C30_TiledClientDragged ==
    /\ phase = "loop"
    /\ \E a \in RegistrySet(cl, clients), d \in Motions :
          /\ cl[a].is_dock = 0
          /\ cl[a].workspace \in Workspaces
          /\ tag_mode[cl[a].workspace] = MODE_TILING
          /\ LET t == GeomOf(tile_workspace(Cur, cl[a].workspace), a)
             IN  GeomOf(Cur, a) = Rect(t.x + d[1], t.y + d[2], t.w, t.h)


\* C31: a ConfigureRequest for a dock is refused: after the handler the
\* dock's record and its window have the geometry derived from the struts
\* read again (a window that is no dock any more stays where it is), and
\* no requested value is applied; a ConfigureRequest for any other window,
\* managed or not, gives the window every value the request names.
C31_DockRequestRefused ==
    [][ \A w \in 1..2, p \in CfgProps, req \in CfgRects, mask \in CfgMasks :
          CfgConfigureRequest(w, p, req, mask) =>
          LET c == find_client(cl, clients, w)
          IN  IF c # NULL /\ cl[c].is_dock # 0
              THEN LET d == apply_dock_geometry(get_window_type_and_strut(cl[c], p),
                                ScreenW, ScreenH, reserved_top, reserved_bottom,
                                reserved_left, reserved_right)
                   IN  /\ GeomOf(Cur', c) = Rect(d.x, d.y, d.w, d.h)
                       /\ probe'.xgeom[w] = IF d.is_dock # 0
                                            THEN Rect(d.x, d.y, d.w, d.h)
                                            ELSE probe.xgeom[w]
              ELSE /\ "x" \in mask => probe'.xgeom[w].x = req.x
                   /\ "y" \in mask => probe'.xgeom[w].y = req.y
                   /\ "w" \in mask => probe'.xgeom[w].w = req.w
                   /\ "h" \in mask => probe'.xgeom[w].h = req.h ]_vars

\* a panel with a top strut has asked to be configured and is where its
\* strut puts it
C31_PanelAskedToMove ==
    /\ probe.op = "configure"
    /\ probe.dock
    /\ probe.xgeom[probe.win] = Rect(0, 0, 1000, 30)
    /\ \E c \in RegistrySet(cl, clients) :
          /\ cl[c].win = probe.win
          /\ cl[c].is_dock # 0
          /\ GeomOf(Cur, c) = Rect(0, 0, 1000, 30)


\* the candidates of find_neighbor_in_direction for the focused client:
\* the other clients of the current workspace that are no docks
NeighborCandidates ==
    { a \in RegistrySet(cl, clients) :
        /\ a # focused
        /\ cl[a].workspace = current_workspace
        /\ cl[a].is_dock = 0 }

\* the place of candidate a in the order of preference: its class (0 in
\* direction with perpendicular overlap, 1 in direction without, 2 not in
\* direction), its gap, its perpendicular centre distance
NeighborKey(a, dir) ==
    LET k == Candidate(cl[focused], cl[a], dir)
    IN  << IF k.in_dir /\ k.ov > 0 THEN 0 ELSE IF k.in_dir THEN 1 ELSE 2,
           k.primary, k.secondary >>

\* the strict lexicographic order of the keys
LexLess(k1, k2) ==
    \/ k1[1] < k2[1]
    \/ k1[1] = k2[1] /\ k1[2] < k2[2]
    \/ k1[1] = k2[1] /\ k1[2] = k2[2] /\ k1[3] < k2[3]

\* the focused client is one find_neighbor_in_direction starts from
FocusedIsReference ==
    /\ phase = "loop"
    /\ focused # NULL
    /\ focused \in live
    /\ focused \in RegistrySet(cl, clients)
    /\ cl[focused].workspace = current_workspace
    /\ cl[focused].is_dock = 0

\* C32: find_neighbor_in_direction returns a candidate that is minimal
\* under the lexicographic order (class, gap, perpendicular centre
\* distance), or null when there is no candidate, for every direction.
C32_NeighborIsMinimal ==
    FocusedIsReference =>
    \A dir \in 0..3 :
        LET b == find_neighbor_in_direction(Cur, focused, dir)
        IN  IF NeighborCandidates = {} THEN b = NULL
            ELSE /\ b \in NeighborCandidates
                 /\ \A a \in NeighborCandidates :
                       ~LexLess(NeighborKey(a, dir), NeighborKey(b, dir))

\* the same where some candidate lies in the direction asked for
C32_NeighborInDirectionIsMinimal ==
    FocusedIsReference =>
    \A dir \in 0..3 :
        (\E a \in NeighborCandidates : NeighborKey(a, dir)[1] < 2) =>
        LET b == find_neighbor_in_direction(Cur, focused, dir)
        IN  /\ b \in NeighborCandidates
            /\ \A a \in NeighborCandidates :
                  ~LexLess(NeighborKey(a, dir), NeighborKey(b, dir))

\* no candidate lies in some direction, and two candidates differ in gap
\* or perpendicular centre distance
C32_NothingInDirection ==
    /\ FocusedIsReference
    /\ \E dir \in 0..3 :
          /\ \A a \in NeighborCandidates : NeighborKey(a, dir)[1] = 2
          /\ \E a, b \in NeighborCandidates :
                LexLess(NeighborKey(a, dir), NeighborKey(b, dir))


\* the client find_neighbor_in_direction(focused, dir) measures from:
\* `focused` if it is on the current workspace, else the first client of
\* the current workspace
NeighborReference ==
    IF focused = NULL \/ cl[focused].workspace # current_workspace
    THEN FirstOnWorkspace(cl, clients, current_workspace)
    ELSE focused

\* C33: for every direction find_neighbor_in_direction(focused, dir)
\* returns null or a client of the registry that is on the current
\* workspace, is no dock and is not the client measured from.
C33_NeighborOnWorkspaceNoDock ==
    (phase = "loop" /\ FocusValid(Cur)) =>
    \A dir \in 0..3 :
        LET b == find_neighbor_in_direction(Cur, focused, dir)
        IN  \/ b = NULL
            \/ /\ b \in RegistrySet(cl, clients)
               /\ cl[b].workspace = current_workspace
               /\ cl[b].is_dock = 0
               /\ b # NeighborReference

\* no step that moves the focus to a dock or to a client of another
\* workspace is a step of directional focus or of directional swap
C33_DirectionKeysStayOnWorkspace ==
    [][ ( /\ phase = "loop"
          /\ focused' # focused
          /\ focused' # NULL
          /\ (cl'[focused'].is_dock # 0
                \/ cl'[focused'].workspace # current_workspace) )
        => ~ (KeyFocusDirection \/ KeySwapDirection) ]_vars

\* a neighbour is returned while a dock and a client of another workspace
\* are in the registry
C33_NeighborBesideDock ==
    /\ phase = "loop"
    /\ FocusValid(Cur)
    /\ \E dir \in 0..3 : find_neighbor_in_direction(Cur, focused, dir) # NULL
    /\ \E a \in RegistrySet(cl, clients) :
          cl[a].is_dock # 0 \/ cl[a].workspace # current_workspace

\* the list q with the entries a and b exchanged
Exchanged(q, a, b) ==
    [ i \in 1..Len(q) |-> IF q[i] = a THEN b ELSE IF q[i] = b THEN a ELSE q[i] ]

\* the registry read backwards over the prev pointers from its last client
RECURSIVE BackFrom(_, _, _)
BackFrom(m, a, fuel) ==
    IF a = NULL \/ fuel = 0 THEN << >>
    ELSE Append(BackFrom(m, m[a].prev, fuel - 1), a)

\* C34: swap_clients(a, b) for two distinct clients of one workspace
\* exchanges their positions in the registry, whether a is immediately before
\* b, b immediately before a, or the two are apart; every other client keeps
\* its position, the prev pointers describe the same order, the head pointer
\* follows, and `focused` is not changed.
C34_SwapExchangesPositions ==
    [][(probe.op = "none" /\ probe'.op = "swap")
       => LET a == probe'.a
              b == probe'.b
              was == Registry(cl, clients)
              now == Registry(cl', clients')
          IN  /\ now = Exchanged(was, a, b)
              /\ BackFrom(cl', now[Len(now)], Len(now) + 1) = now
              /\ cl'[clients'].prev = NULL
              /\ focused' = focused
              /\ \A c \in live : cl'[c].win = cl[c].win
                                 /\ cl'[c].workspace = cl[c].workspace]_vars

\* C34, the calls that change nothing: swap_clients(a, a) and swap_clients
\* of two clients of different workspaces leave the registry as it was.
C34_SwapNoOp ==
    \A a, b \in RegistrySet(cl, clients) :
        (a = b \/ cl[a].workspace # cl[b].workspace)
        => SwapIn(Cur, a, b) = Cur

\* the last of four clients has been swapped with the head, two places
\* before it (b before a, apart), while a client of another workspace is in
\* the registry
C34_SwappedWithHeadApart ==
    /\ probe.op = "swap"
    /\ probe.n = 1
    /\ probe.was.clients = probe.b
    /\ Len(Registry(cl, clients)) = 4
    /\ Registry(probe.was.cl, probe.was.clients)[3] = probe.a
    /\ clients = probe.a
    /\ \E c \in RegistrySet(cl, clients) : cl[c].workspace # cl[probe.a].workspace

\* the windows of the registry clients of state s whose workspace is in W
WindowsOn(s, W) ==
    { s.cl[c].win : c \in { d \in RegistrySet(s.cl, s.clients) : s.cl[d].workspace \in W } }

\* C35: after switch_workspace(tag) to a workspace other than the current
\* one, the mapped client windows are exactly those of the clients with
\* workspace == tag and of the clients with workspace == -1, the window of
\* every client of another workspace is unmapped, and `focused` is the first
\* registry client with workspace == tag, or null.
C35_SwitchMapsExactly ==
    [][(phase = "loop" /\ current_workspace' # current_workspace)
       => LET tag == current_workspace'
              shown == WindowsOn(Cur', { tag, -1 })
              all == WindowsOn(Cur', -1..(MAX_WORKSPACES - 1))
          IN  /\ mapped' \cap all = shown
              /\ \A c \in RegistrySet(cl', clients') :
                    cl'[c].workspace \notin { tag, -1 } => cl'[c].win \notin mapped'
              /\ focused' = FirstOnWorkspace(cl', clients', tag)]_vars

\* C35, when no window has two records in the registry and every dock has
\* workspace == -1
C35_SwitchMapsExactlyPlain ==
    [][(/\ phase = "loop"
        /\ current_workspace' # current_workspace
        /\ \A a, b \in RegistrySet(cl, clients) : cl[a].win = cl[b].win => a = b
        /\ \A a \in RegistrySet(cl, clients) : cl[a].is_dock # 0 => cl[a].workspace = -1)
       => LET tag == current_workspace'
              shown == WindowsOn(Cur', { tag, -1 })
              all == WindowsOn(Cur', -1..(MAX_WORKSPACES - 1))
          IN  /\ mapped' \cap all = shown
              /\ \A c \in RegistrySet(cl', clients') :
                    cl'[c].workspace \notin { tag, -1 } => cl'[c].win \notin mapped'
              /\ focused' = FirstOnWorkspace(cl', clients', tag)]_vars

\* C35, the calls that change nothing: switch_workspace(tag) with tag out of
\* 0..8 or equal to the current workspace returns the state it was given.
C35_SwitchNoOp ==
    \A tag \in { -1, MAX_WORKSPACES, current_workspace } :
        switch_workspace(Cur, tag) = Cur

\* a window with a record on workspace 1 and a record on workspace 2 is
\* mapped after the switch to workspace 2
C35_SwitchedWithTwoRecords ==
    /\ phase = "loop"
    /\ current_workspace = 1
    /\ \E a, b \in RegistrySet(cl, clients) :
          /\ cl[a].win = cl[b].win
          /\ cl[a].workspace = 0
          /\ cl[b].workspace = 1
          /\ cl[a].is_dock = 0
          /\ cl[b].is_dock = 0
          /\ cl[a].win \in mapped

\* C36: Mod+Shift+t gives every workspace 0..8 the opposite of the mode it
\* had before, whatever the nine modes were.
C36_ShiftToggleAll ==
    [][ToggleMode(TRUE) => \A w \in Workspaces : tag_mode'[w] # tag_mode[w]]_vars

\* C36, when the nine modes are equal before the key
C36_ShiftToggleAllEqual ==
    [][((\A w \in Workspaces : tag_mode[w] = tag_mode[0]) /\ ToggleMode(TRUE))
       => \A w \in Workspaces : tag_mode'[w] # tag_mode[w]]_vars

\* C36, what the code does: Mod+Shift+t gives every workspace the opposite of
\* the mode workspace 0 had
C36_ShiftSetsAllFromFirst ==
    [][ToggleMode(TRUE) => \A w \in Workspaces : tag_mode'[w] # tag_mode[0]]_vars

\* C36, the plain key: Mod+t changes the mode of the current workspace and
\* of no other.
C36_PlainToggleCurrent ==
    [][ToggleMode(FALSE)
       => \A w \in Workspaces :
            (tag_mode'[w] # tag_mode[w]) <=> (w = current_workspace)]_vars

\* the modes differ from one workspace to another, with a client on a
\* workspace other than the first
C36_MixedModes ==
    /\ phase = "loop"
    /\ tag_mode[0] # tag_mode[1]
    /\ current_workspace = 1
    /\ clients # NULL

\* C37: whenever run_loop is about to read an event, the window of every
\* non-dock client of the current workspace is mapped and the window of every
\* non-dock client of another workspace is unmapped.
C37_MappedIffCurrent ==
    phase = "loop" =>
        \A c \in RegistrySet(cl, clients) :
            cl[c].is_dock = 0 =>
                (cl[c].win \in mapped <=> cl[c].workspace = current_workspace)

\* C37, one direction, when no window is managed twice: the window of a
\* non-dock client of another workspace is unmapped
C37_OthersUnmapped ==
    ( /\ phase = "loop"
      /\ \A a, b \in RegistrySet(cl, clients) : cl[a].win = cl[b].win => a = b )
    => \A c \in RegistrySet(cl, clients) :
           (cl[c].is_dock = 0 /\ cl[c].workspace # current_workspace)
           => cl[c].win \notin mapped

\* the only client, managed once, is on the current workspace and its window
\* is unmapped
C37_CurrentClientUnmapped ==
    /\ phase = "loop"
    /\ Len(Registry(cl, clients)) = 1
    /\ cl[clients].is_dock = 0
    /\ cl[clients].workspace = current_workspace
    /\ cl[clients].win \notin mapped

\* the rectangle of record a lies within a sw x sh screen and has a positive
\* size
WithinScreen(s, a, sw, sh) ==
    LET g == GeomOf(s, a)
    IN  /\ g.x >= 0
        /\ g.y >= 0
        /\ g.w >= 1
        /\ g.h >= 1
        /\ g.x + g.w <= sw
        /\ g.y + g.h <= sh

\* C38: the rectangle apply_dock_geometry has stored for a dock lies within
\* the screen and has a positive size, for every combination of strut sizes
\* and partial start and end coordinates.
C38_DockWithinScreen ==
    phase = "loop" =>
        \A c \in RegistrySet(cl, clients) :
            cl[c].is_dock # 0 => WithinScreen(Cur, c, ScreenW, ScreenH)

\* the partial range apply_dock_geometry takes for dock record c starts at
\* or beyond the edge of a sw x sh screen
StartBeyondEdge(c, sw, sh) ==
    IF c.strut_top # 0
    THEN ULess(c.strut_top_start_x, c.strut_top_end_x) /\ c.strut_top_start_x >= sw
    ELSE IF c.strut_bottom # 0
    THEN ULess(c.strut_bottom_start_x, c.strut_bottom_end_x) /\ c.strut_bottom_start_x >= sw
    ELSE IF c.strut_left # 0
    THEN ULess(c.strut_left_start_y, c.strut_left_end_y) /\ c.strut_left_start_y >= sh
    ELSE IF c.strut_right # 0
    THEN ULess(c.strut_right_start_y, c.strut_right_end_y) /\ c.strut_right_start_y >= sh
    ELSE FALSE

\* the bottom or right strut apply_dock_geometry takes for dock record c is
\* negative as an int
SizeNegative(c) ==
    IF c.strut_top # 0 THEN FALSE
    ELSE IF c.strut_bottom # 0 THEN c.strut_bottom < 0
    ELSE IF c.strut_left # 0 THEN FALSE
    ELSE c.strut_right < 0

\* C38, when the partial range that is used starts on the screen, or no
\* partial range is used, and the bottom or right strut that is used is not
\* negative as an int
C38_DockWithinScreenStartOnScreen ==
    phase = "loop" =>
        \A c \in RegistrySet(cl, clients) :
            ( /\ cl[c].is_dock # 0
              /\ ~StartBeyondEdge(cl[c], ScreenW, ScreenH)
              /\ ~SizeNegative(cl[c]) )
            => WithinScreen(Cur, c, ScreenW, ScreenH)

\* a dock whose top strut starts beyond the right edge of the screen has been
\* managed
C38_StrutStartsBeyondEdge ==
    /\ phase = "loop"
    /\ \E c \in RegistrySet(cl, clients) :
          /\ cl[c].is_dock # 0
          /\ cl[c].strut_top # 0
          /\ ULess(cl[c].strut_top_start_x, cl[c].strut_top_end_x)
          /\ cl[c].strut_top_start_x >= ScreenW

=============================================================================
